---- MODULE Spec2Model ----
(***************************************************************************)
(* A state-machine model of parts of ExaTN:                                *)
(*   - numerics::MetisGraph (metis_graph.cpp): vertex/edge arrays in CSR   *)
(*     form, append, merge, partition, subgraph extraction, pack/unpack;   *)
(*   - TensorNetworkReconstructor::reconstruct (reconstructor.cpp);        *)
(*   - MPICommProxy / ProcessGroup::split (mpi_proxy.cpp);                 *)
(*   - numerics::TensorConn (tensor_connected.cpp);                        *)
(*   - the tensor operation constructors (tensor_op_*.cpp);                *)
(*   - the evaluate functions of the API (exatn_numerics.hpp);             *)
(*   - the operation DAG and the lazy graph executor, TensorNetwork        *)
(*     finalize and composite tensors, whose code lies outside the files   *)
(*     at hand and which follow the written specification.                 *)
(* Each subsystem has its own next-state relation and specification; the   *)
(* variables of the other subsystems stay at their initial values.         *)
(*                                                                         *)
(* C++ vectors are sequences; the C++ index i is the TLA+ index i+1.       *)
(* An access outside a vector is undefined behaviour.  The operators flag   *)
(* it (field ub of their result); what they compute past that point, on    *)
(* the placeholder junk for the value read, is not used: the action that   *)
(* makes a flagged call sets status to "ub", which stands for every        *)
(* outcome a build may produce (a crash, stale memory read, a corrupted    *)
(* vector), keeps the object as it was before the call, and the model      *)
(* takes no further step.  Nothing is taken to hold of an object in        *)
(* status "ub".  An assertion that fails ends the run in status "abort".   *)
(***************************************************************************)
EXTENDS Integers, Sequences, FiniteSets, TLC

VARIABLES
  graph,      \* the MetisGraph object under edit
  status,     \* "ok" | "ub" (the last call had undefined behaviour) | "abort"
  last,       \* the last MetisGraph call: its name, its arguments (of a merge: the
              \* pair merged, smaller id first), its result, and whether the graph
              \* it was made on was well-formed
  packet,     \* BytePacket contents: a sequence of words
  copy,       \* the MetisGraph built by unpacking packet
  recon,      \* the TensorNetworkReconstructor and the position of reconstruct()
  mpi,        \* the MPI communicators and the MPICommProxy objects alive
  group,      \* a ProcessGroup and the result of split() on each of its members
  conn,       \* a TensorConn object
  oper,       \* a tensor operation and the tensors it has touched
  server,     \* the numerical server as seen by the evaluate functions
  dag,        \* the operation DAG and the lazy graph executor working on it
  net,        \* a TensorNetwork under construction and the result of finalize
  comp        \* a composite tensor and its blocks

graphVars == <<graph, status, last, packet, copy>>

moreVars == <<server, dag, net, comp>>

notGraphVars == <<recon, mpi, group, conn, oper, moreVars>>

vars == <<graph, status, last, packet, copy, recon, mpi, group, conn, oper, server, dag, net, comp>>

(***************************************************************************)
(* Bounds of the model.                                                    *)
(***************************************************************************)
MaxV == 3        \* most vertices a graph is grown to
MaxVW == 1       \* largest vertex weight passed to appendVertex
MaxEW == 1       \* largest edge weight passed to appendVertex
MaxWgt == 6      \* edits are taken while every vertex and edge weight stays within this
MaxLegs == 2     \* most legs joining one pair of tensors of a network
MaxParts == 2    \* most partitions asked of partitionGraph
MaxCap == 2      \* largest iteration cap given to the reconstructor
MaxIter == 5     \* iterations of the reconstruction loop that are followed
MaxGrad == 2     \* gradient max-abs values 0..MaxGrad, the tolerance being 1
MaxCalls == 2    \* calls of reconstruct() on one reconstructor
MaxProxies == 3  \* MPICommProxy objects alive at a time
MaxBlocks == 3   \* shared_ptr control blocks allocated in a run
MaxRank == 3     \* global MPI ranks 0..MaxRank
MaxGroup == 3    \* most processes in the group that is split
MaxColor == 1    \* split colours -1..MaxColor
MaxMem == 2      \* per-process memory limits 1..MaxMem
MaxConnLegs == 2 \* most legs of the TensorConn
MaxId == 2       \* tensor ids 0..MaxId of the TensorConn
MaxEvals == 3    \* evaluate calls made on the numerical server
MaxNodes == 4    \* operations appended to the DAG
MaxTensors == 2  \* tensors the appended operations name
MaxWide == 17    \* operations of the wide DAG that can all be in flight at once
MaxDepth == 5    \* prefetch depths 0..MaxDepth given to setPrefetchDepth
MaxPlaced == 2   \* tensor ids 1..MaxPlaced of the small networks
MaxExtent == 3   \* dimension extents 2..MaxExtent of the small networks
MaxSide == 5     \* dimension extents 1..MaxSide of the small composite tensors
MaxSplit == 2    \* splitting depths 0..MaxSplit of a dimension

(***************************************************************************)
(* Vector helpers (0-based, bounds-checked).  junk is the placeholder for   *)
(* a value read outside a vector.                                          *)
(***************************************************************************)
InR(s, i) == i >= 0 /\ i < Len(s)

Get(s, i, junk) == IF InR(s, i) THEN s[i + 1] ELSE junk

Put(s, i, x) == IF InR(s, i) THEN [s EXCEPT ![i + 1] = x] ELSE s

\* std::vector::erase(begin()+i); outside the vector the call is flagged by
\* its caller and s stands in for the result
Erase(s, i) ==
  IF InR(s, i) THEN SubSeq(s, 1, i) \o SubSeq(s, i + 2, Len(s)) ELSE s

Min(a, b) == IF a < b THEN a ELSE b

Max(a, b) == IF a < b THEN b ELSE a

RECURSIVE SumSeq(_)
SumSeq(s) == IF s = <<>> THEN 0 ELSE Head(s) + SumSeq(Tail(s))

\* static_cast<std::size_t>(std::log2(static_cast<double>(x))) for x >= 1
RECURSIVE Log2Floor(_)
Log2Floor(x) == IF x <= 1 THEN 0 ELSE 1 + Log2Floor(x \div 2)

(***************************************************************************)
(* MetisGraph: construction and clearing.                                  *)
(***************************************************************************)
\* MetisGraph::MetisGraph() with initMetisGraph()
NewGraph ==
  [ num_vertices_ |-> 0, xadj_ |-> <<0>>, adjncy_ |-> <<>>, vwgt_ |-> <<>>,
    adjwgt_ |-> <<>>, renumber_ |-> <<>>, num_parts_ |-> 0, partitions_ |-> <<>>,
    part_weights_ |-> <<>>, edge_cut_ |-> 0, num_cross_edges_ |-> 0 ]

clearPartitions(g) ==
  [g EXCEPT !.partitions_ = <<>>, !.part_weights_ = <<>>, !.edge_cut_ = 0,
            !.num_cross_edges_ = 0, !.num_parts_ = 0]

\* MetisGraph::clear(): every vector emptied, then initMetisGraph() pushes the 0
clear(g) ==
  [clearPartitions(g) EXCEPT !.renumber_ = <<>>, !.xadj_ = <<0>>, !.adjncy_ = <<>>,
                             !.vwgt_ = <<>>, !.adjwgt_ = <<>>, !.num_vertices_ = 0]

\* MetisGraph::appendVertex(num_edges, adj_vertices, edge_weights, vertex_weight)
appendVertex(g, adj_vertices, edge_weights, vertex_weight) ==
  LET g1 == IF g.num_parts_ > 0 THEN clearPartitions(g) ELSE g
  IN [g1 EXCEPT !.adjncy_ = @ \o adj_vertices,
                !.adjwgt_ = @ \o edge_weights,
                !.xadj_ = Append(@, g1.xadj_[g1.num_vertices_ + 1] + Len(adj_vertices)),
                !.vwgt_ = Append(@, vertex_weight),
                !.num_vertices_ = @ + 1]

(***************************************************************************)
(* MetisGraph::mergeVertices, statement by statement.                      *)
(***************************************************************************)
\* for(i = 0; i < cnt; ++i) run[i] = s[off + i]
ReadRun(s, off, cnt, junk) == [i \in 1..Max(cnt, 0) |-> Get(s, off + i - 1, junk)]

\* whether a run of cnt elements at off leaves the vector
RunOut(s, off, cnt) == cnt > 0 /\ (off < 0 \/ off + cnt > Len(s))

\* for(i = 0; i < num; ++i) s[off + i] = vals[i]
RECURSIVE WriteRun(_, _, _)
WriteRun(s, off, vals) ==
  IF vals = <<>> THEN s ELSE WriteRun(Put(s, off, Head(vals)), off + 1, Tail(vals))

\* for(i = hi; i >= lo; --i) s[i + k] = s[i]                      (lines 372-373)
RECURSIVE ShiftUp(_, _, _, _, _)
ShiftUp(s, i, lo, k, junk) ==
  IF i < lo THEN s ELSE ShiftUp(Put(s, i + k, Get(s, i, junk)), i - 1, lo, k, junk)

\* for(vert = lo; vert <= hi; ++vert) xadj[vert] += d
AddRange(xadj, lo, hi, d) ==
  [k \in 1..Len(xadj) |-> IF k - 1 >= lo /\ k - 1 <= hi THEN xadj[k] + d ELSE xadj[k]]

\* Lines 367-378: the edges of vertex2 are moved right behind those of vertex1.
\* m = [xadj_, adjncy_, adjwgt_, ub]
MoveEdges(m, v1, v2, num_edges2, junk) ==
  IF num_edges2 > 0
  THEN LET off2 == m.xadj_[v2 + 1]
           hi == m.xadj_[v2 + 1] - 1
           lo == m.xadj_[v1 + 2]
           edges2 == ReadRun(m.adjncy_, off2, num_edges2, junk)
           edge_weights2 == ReadRun(m.adjwgt_, off2, num_edges2, junk)
           out == \/ RunOut(m.adjncy_, off2, num_edges2)
                  \/ RunOut(m.adjwgt_, off2, num_edges2)
                  \/ (hi >= lo /\ (lo < 0 \/ hi + num_edges2 >= Len(m.adjncy_)
                                          \/ hi + num_edges2 >= Len(m.adjwgt_)))
                  \/ RunOut(m.adjncy_, lo, num_edges2)
                  \/ RunOut(m.adjwgt_, lo, num_edges2)
       IN [ xadj_ |-> AddRange(m.xadj_, v1 + 1, v2, num_edges2),
            adjncy_ |-> WriteRun(ShiftUp(m.adjncy_, hi, lo, num_edges2, junk), lo, edges2),
            adjwgt_ |-> WriteRun(ShiftUp(m.adjwgt_, hi, lo, num_edges2, junk), lo, edge_weights2),
            ub |-> m.ub \/ out ]
  ELSE m

\* Lines 391-412: the two runs are merged by adjacent vertex id.
\* c = [adjncy_, adjwgt_, offset, j1, j2, ub]; n1, n2 are num_edges1, num_edges2.
RECURSIVE SortCombined(_, _, _, _, _, _, _)
SortCombined(c, edges1, edge_weights1, n1, edges2, edge_weights2, n2) ==
  LET out == ~InR(c.adjncy_, c.offset) \/ ~InR(c.adjwgt_, c.offset)
      take1 == [c EXCEPT !.adjncy_ = Put(@, c.offset, edges1[c.j1 + 1]),
                         !.adjwgt_ = Put(@, c.offset, edge_weights1[c.j1 + 1]),
                         !.offset = @ + 1, !.j1 = @ + 1, !.ub = @ \/ out]
      take2 == [c EXCEPT !.adjncy_ = Put(@, c.offset, edges2[c.j2 + 1]),
                         !.adjwgt_ = Put(@, c.offset, edge_weights2[c.j2 + 1]),
                         !.offset = @ + 1, !.j2 = @ + 1, !.ub = @ \/ out]
  IN IF c.j1 < n1 /\ c.j2 < n2
     THEN IF edges1[c.j1 + 1] <= edges2[c.j2 + 1]
          THEN SortCombined(take1, edges1, edge_weights1, n1, edges2, edge_weights2, n2)
          ELSE SortCombined(take2, edges1, edge_weights1, n1, edges2, edge_weights2, n2)
     ELSE IF c.j1 < n1 /\ c.j2 = n2
     THEN SortCombined(take1, edges1, edge_weights1, n1, edges2, edge_weights2, n2)
     ELSE IF c.j1 = n1 /\ c.j2 < n2
     THEN SortCombined(take2, edges1, edge_weights1, n1, edges2, edge_weights2, n2)
     ELSE c

\* Lines 416-429: from the end of the combined list down to its second entry,
\* contracted edges are erased and an entry equal to its left neighbour is
\* absorbed into it.   d = [adjncy_, adjwgt_, num_deleted, ub]
RECURSIVE DeleteRedundant(_, _, _, _, _, _)
DeleteRedundant(d, i, lo, v1, v2, junk) ==
  IF i < lo THEN d
  ELSE LET a == Get(d.adjncy_, i, junk)
           out == ~InR(d.adjncy_, i)
           erased == [d EXCEPT !.adjncy_ = Erase(@, i), !.adjwgt_ = Erase(@, i),
                               !.num_deleted = @ + 1, !.ub = @ \/ out]
       IN IF a = v1 \/ a = v2
          THEN DeleteRedundant(erased, i - 1, lo, v1, v2, junk)
          ELSE IF a = Get(d.adjncy_, i - 1, junk)
          THEN DeleteRedundant(
                 [erased EXCEPT
                    !.adjwgt_ = Erase(Put(d.adjwgt_, i - 1,
                                          Get(d.adjwgt_, i - 1, junk) + (Get(d.adjwgt_, i, junk) - 1)), i),
                    !.ub = @ \/ ~InR(d.adjncy_, i - 1)],
                 i - 1, lo, v1, v2, junk)
          ELSE DeleteRedundant([d EXCEPT !.ub = @ \/ out \/ ~InR(d.adjncy_, i - 1)],
                               i - 1, lo, v1, v2, junk)

\* Lines 430-434: the first entry of the combined list is erased when it names vertex1.
DeleteFirst(d, first, v1, junk) ==
  IF Get(d.adjncy_, first, junk) = v1
  THEN [d EXCEPT !.adjncy_ = Erase(@, first), !.adjwgt_ = Erase(@, first),
                 !.num_deleted = @ + 1, !.ub = @ \/ ~InR(d.adjncy_, first)]
  ELSE [d EXCEPT !.ub = @ \/ ~InR(d.adjncy_, first)]

\* Lines 436-444: the xadj_ entries behind vertex1 drop by the number of erased
\* entries, the slot of vertex2 is erased, vertex2 is renamed to vertex1.
\* m1 holds the arrays after the move, c after the sort, d after the deletions.
MergeFinish(g, v1, v2, m1, c, d) ==
  LET n == g.num_vertices_
      vwgt == Erase([g.vwgt_ EXCEPT ![v1 + 1] = @ + (g.vwgt_[v2 + 1] - 1)], v2)
      xadj == Erase(IF d.num_deleted > 0
                    THEN AddRange(m1.xadj_, v1 + 1, n, 0 - d.num_deleted)
                    ELSE m1.xadj_, v2)
      adjncy == [k \in 1..Len(d.adjncy_) |-> IF d.adjncy_[k] = v2 THEN v1 ELSE d.adjncy_[k]]
  IN [ g |-> [g EXCEPT !.vwgt_ = vwgt, !.xadj_ = xadj, !.adjncy_ = adjncy,
                       !.adjwgt_ = d.adjwgt_, !.num_vertices_ = n - 1],
       ok |-> TRUE, ub |-> d.ub,
       asserts |-> /\ Len(g.xadj_) = n + 1 /\ Len(g.vwgt_) = n
                   /\ c.offset = m1.xadj_[v1 + 2]
                   /\ Len(xadj) = n /\ Len(vwgt) = n - 1
                   /\ Len(adjncy) = Len(d.adjwgt_) /\ Len(adjncy) = xadj[n] ]

\* Lines 414-434
MergeDelete(g, v1, v2, m1, c, junk) ==
  MergeFinish(g, v1, v2, m1, c,
              DeleteFirst(DeleteRedundant([adjncy_ |-> c.adjncy_, adjwgt_ |-> c.adjwgt_,
                                           num_deleted |-> 0, ub |-> c.ub],
                                          m1.xadj_[v1 + 2] - 1, m1.xadj_[v1 + 1] + 1, v1, v2, junk),
                          m1.xadj_[v1 + 1], v1, junk))

\* Lines 380-413: both runs are copied out and merged back in order.  The
\* weights of the copies are read from adjncy_ (lines 385 and 389).
MergeSort(g, v1, v2, num_edges1, num_edges2, m1, junk) ==
  LET off1 == m1.xadj_[v1 + 1]
      off2 == m1.xadj_[v1 + 1] + Max(num_edges1, 0)
  IN MergeDelete(g, v1, v2, m1,
       SortCombined([adjncy_ |-> m1.adjncy_, adjwgt_ |-> m1.adjwgt_, offset |-> off1,
                     j1 |-> 0, j2 |-> 0,
                     ub |-> m1.ub \/ RunOut(m1.adjncy_, off1, num_edges1)
                                 \/ RunOut(m1.adjncy_, off2, num_edges2)],
                    ReadRun(m1.adjncy_, off1, num_edges1, junk),
                    ReadRun(m1.adjncy_, off1, num_edges1, junk), num_edges1,
                    ReadRun(m1.adjncy_, off2, num_edges2, junk),
                    ReadRun(m1.adjncy_, off2, num_edges2, junk), num_edges2),
       junk)

\* Lines 361-378, for vertex1 < vertex2 inside the graph
MergeMove(g, v1, v2, num_edges1, num_edges2, junk) ==
  MergeSort(g, v1, v2, num_edges1, num_edges2,
            MoveEdges([xadj_ |-> g.xadj_, adjncy_ |-> g.adjncy_, adjwgt_ |-> g.adjwgt_,
                       ub |-> num_edges1 < 0 \/ num_edges2 < 0],
                      v1, v2, num_edges2, junk),
            junk)

\* Lines 355-357: the partitions and renumber_ are dropped before any check
MergePrepare(g0) ==
  [(IF g0.num_parts_ > 0 THEN clearPartitions(g0) ELSE g0) EXCEPT !.renumber_ = <<>>]

\* The whole call.  Result: [g, ok, ub, asserts].
mergeVertices(g0, vertex1, vertex2, junk) ==
  LET g == MergePrepare(g0)
      n == g0.num_vertices_
      v1 == Min(vertex1, vertex2)
      v2 == Max(vertex1, vertex2)
  IN IF vertex1 = vertex2 \/ vertex1 >= n \/ vertex2 >= n
     THEN [g |-> g, ok |-> FALSE, ub |-> FALSE,
           asserts |-> Len(g.xadj_) = n + 1 /\ Len(g.vwgt_) = n]
     ELSE MergeMove(g, v1, v2, g.xadj_[v1 + 2] - g.xadj_[v1 + 1],
                    g.xadj_[v2 + 2] - g.xadj_[v2 + 1], junk)

(***************************************************************************)
(* MetisGraph::partitionGraph(num_parts, imbalance).  METIS_PartGraphKway  *)
(* is external: parts is the assignment it writes into partitions_ and     *)
(* cut the objective value it writes into edge_cut_, errc_ok its status.   *)
(***************************************************************************)
\* Lines 469-475: part weights and the number of adjacency entries that cross.
\* a = [part_weights_, num_cross_edges_, ub]
RECURSIVE CountCross(_, _, _, _, _, _)
CountCross(g, partition, edge, hi, cnt, junk) ==
  IF edge >= hi THEN cnt
  ELSE LET adj == Get(g.adjncy_, edge, junk)
           out == ~InR(g.adjncy_, edge) \/ ~InR(g.partitions_, adj)
           cross == Get(g.partitions_, adj, junk) # partition
       IN CountCross(g, partition, edge + 1, hi,
                     [num |-> cnt.num + (IF cross THEN 1 ELSE 0), ub |-> cnt.ub \/ out], junk)

RECURSIVE PartitionStats(_, _, _, _)
PartitionStats(g, vert, a, junk) ==
  IF vert >= g.num_vertices_ THEN a
  ELSE LET partition == g.partitions_[vert + 1]
           cnt == CountCross(g, partition, g.xadj_[vert + 1], g.xadj_[vert + 2],
                             [num |-> a.num_cross_edges_, ub |-> a.ub], junk)
       IN PartitionStats(g, vert + 1,
            [ part_weights_ |-> Put(a.part_weights_, partition,
                                    Get(a.part_weights_, partition, junk) + g.vwgt_[vert + 1]),
              num_cross_edges_ |-> cnt.num,
              ub |-> cnt.ub \/ ~InR(a.part_weights_, partition) ], junk)

\* Result: [g, ok, ub, asserts]
partitionGraph(g0, num_parts, parts, cut, errc_ok, junk) ==
  LET g1 == IF g0.num_parts_ > 0 THEN clearPartitions(g0) ELSE g0
      np == Min(num_parts, g1.num_vertices_)
      g2 == [g1 EXCEPT !.num_parts_ = np,
                       !.partitions_ = IF errc_ok THEN parts
                                       ELSE [k \in 1..g1.num_vertices_ |-> 0],
                       !.edge_cut_ = IF errc_ok THEN cut ELSE 0,
                       !.num_cross_edges_ = 0]
  IN IF errc_ok
     THEN LET a == PartitionStats(g2, 0,
                     [part_weights_ |-> [k \in 1..np |-> 0], num_cross_edges_ |-> 0,
                      ub |-> FALSE], junk)
          IN [ g |-> [g2 EXCEPT !.part_weights_ = a.part_weights_,
                                !.num_cross_edges_ = a.num_cross_edges_ \div 2],
               ok |-> TRUE, ub |-> a.ub, asserts |-> a.num_cross_edges_ % 2 = 0 ]
     ELSE [g |-> g2, ok |-> FALSE, ub |-> FALSE, asserts |-> TRUE]

(***************************************************************************)
(* MetisGraph::MetisGraph(const MetisGraph & parent, std::size_t partition) *)
(***************************************************************************)
\* Lines 129-138: the edges of one parent vertex.  e = [adjncy_, adjwgt_, vw, ub]
RECURSIVE ChildEdges(_, _, _, _, _, _)
ChildEdges(parent, partition, edge, hi, e, junk) ==
  IF edge >= hi THEN e
  ELSE LET adj_vertex_id == Get(parent.adjncy_, edge, junk)
           w == Get(parent.adjwgt_, edge, junk)
           out == ~InR(parent.adjncy_, edge) \/ ~InR(parent.partitions_, adj_vertex_id)
       IN IF Get(parent.partitions_, adj_vertex_id, junk) = partition
          THEN ChildEdges(parent, partition, edge + 1, hi,
                 [e EXCEPT !.adjncy_ = Append(@, adj_vertex_id), !.adjwgt_ = Append(@, w),
                           !.ub = @ \/ out], junk)
          ELSE ChildEdges(parent, partition, edge + 1, hi,
                 [e EXCEPT !.vw = @ + (w - 1), !.ub = @ \/ out], junk)

\* Lines 124-142.  c = [g, vertex_id_map, ub]; vertex_id_map is a sequence of
\* <<parent vertex, child vertex>> pairs.
RECURSIVE ChildVertices(_, _, _, _, _)
ChildVertices(parent, partition, vert, c, junk) ==
  IF vert >= Len(parent.partitions_) THEN c
  ELSE IF parent.partitions_[vert + 1] # partition
  THEN ChildVertices(parent, partition, vert + 1, c, junk)
  ELSE LET lo == Get(parent.xadj_, vert, junk)
           hi == Get(parent.xadj_, vert + 1, junk)
           out == ~InR(parent.vwgt_, vert) \/ ~InR(parent.xadj_, vert + 1)
           e == ChildEdges(parent, partition, lo, hi,
                           [adjncy_ |-> <<>>, adjwgt_ |-> <<>>,
                            vw |-> Get(parent.vwgt_, vert, junk), ub |-> out], junk)
           g == c.g
       IN ChildVertices(parent, partition, vert + 1,
            [ g |-> [g EXCEPT !.vwgt_ = Append(@, e.vw),
                              !.adjncy_ = @ \o e.adjncy_,
                              !.adjwgt_ = @ \o e.adjwgt_,
                              !.xadj_ = Append(@, g.xadj_[g.num_vertices_ + 1] + Len(e.adjncy_)),
                              !.num_vertices_ = @ + 1],
              vertex_id_map |-> Append(c.vertex_id_map, <<vert, g.num_vertices_>>),
              ub |-> c.ub \/ e.ub ], junk)

\* vertex_id_map[id] of std::unordered_map: a missing key is inserted with value 0
MapLookup(vertex_id_map, id) ==
  IF \E k \in 1..Len(vertex_id_map) : vertex_id_map[k][1] = id
  THEN vertex_id_map[CHOOSE k \in 1..Len(vertex_id_map) : vertex_id_map[k][1] = id][2]
  ELSE 0

\* Lines 146-148
RECURSIVE ChildRenumber(_, _, _, _, _)
ChildRenumber(parent, partition, vert, r, junk) ==
  IF vert >= Len(parent.renumber_) THEN r
  ELSE IF Get(parent.partitions_, vert, junk) = partition
  THEN ChildRenumber(parent, partition, vert + 1,
                     [renumber_ |-> Append(r.renumber_, parent.renumber_[vert + 1]),
                      ub |-> r.ub \/ ~InR(parent.partitions_, vert)], junk)
  ELSE ChildRenumber(parent, partition, vert + 1,
                     [r EXCEPT !.ub = @ \/ ~InR(parent.partitions_, vert)], junk)

\* Result: [g, ok, ub, asserts]; asserts is FALSE when the partition does not exist
SubGraph(parent, partition, junk) ==
  IF partition < parent.num_parts_
  THEN LET c == ChildVertices(parent, partition, 0,
                   [g |-> NewGraph, vertex_id_map |-> <<>>, ub |-> FALSE], junk)
           r == ChildRenumber(parent, partition, 0, [renumber_ |-> <<>>, ub |-> FALSE], junk)
       IN [ g |-> [c.g EXCEPT !.adjncy_ = [k \in 1..Len(c.g.adjncy_) |->
                                             MapLookup(c.vertex_id_map, c.g.adjncy_[k])],
                              !.renumber_ = r.renumber_],
            ok |-> TRUE, ub |-> c.ub \/ r.ub, asserts |-> TRUE ]
  ELSE [g |-> NewGraph, ok |-> FALSE, ub |-> FALSE, asserts |-> FALSE]

(***************************************************************************)
(* MetisGraph::pack / unpack / operator==.  A BytePacket is modelled as the *)
(* sequence of the values appended to it, read back from the front.        *)
(***************************************************************************)
\* a vector: its length, then its elements
\* appendToBytePacket(&byte_packet, item): the item goes to the end of the packet
appendToBytePacket(byte_packet, item) == Append(byte_packet, item)

\* extractFromBytePacket(&byte_packet, item): the item at the read position pos
extractFromBytePacket(byte_packet, pos) == byte_packet[pos]

RECURSIVE AppendItems(_, _)
AppendItems(byte_packet, v) ==
  IF v = <<>> THEN byte_packet
  ELSE AppendItems(appendToBytePacket(byte_packet, Head(v)), Tail(v))

\* the length of a vector, then its elements
PackVector(byte_packet, v) == AppendItems(appendToBytePacket(byte_packet, Len(v)), v)

\* pack(byte_packet) into an empty packet
pack(g) ==
  PackVector(PackVector(PackVector(PackVector(PackVector(
      appendToBytePacket(<<>>, g.num_vertices_),
    g.renumber_), g.xadj_), g.adjncy_), g.vwgt_), g.adjwgt_)

\* extract a length and that many elements at position pos (1-based) of the packet;
\* result: [vec, pos]
UnpackVector(byte_packet, pos) ==
  LET length == extractFromBytePacket(byte_packet, pos)
  IN [vec |-> [k \in 1..length |-> extractFromBytePacket(byte_packet, pos + k)],
      pos |-> pos + 1 + length]

\* unpack with xadj_ read ahead of renumber_
unpackSwapped(g, byte_packet) ==
  LET xadj == UnpackVector(byte_packet, 2)
      renumber == UnpackVector(byte_packet, xadj.pos)
      adjncy == UnpackVector(byte_packet, renumber.pos)
      vwgt == UnpackVector(byte_packet, adjncy.pos)
      adjwgt == UnpackVector(byte_packet, vwgt.pos)
  IN [g EXCEPT !.num_vertices_ = extractFromBytePacket(byte_packet, 1), !.renumber_ = renumber.vec,
               !.xadj_ = xadj.vec, !.adjncy_ = adjncy.vec, !.vwgt_ = vwgt.vec,
               !.adjwgt_ = adjwgt.vec]

unpack(g, byte_packet) ==
  LET renumber == UnpackVector(byte_packet, 2)
      xadj == UnpackVector(byte_packet, renumber.pos)
      adjncy == UnpackVector(byte_packet, xadj.pos)
      vwgt == UnpackVector(byte_packet, adjncy.pos)
      adjwgt == UnpackVector(byte_packet, vwgt.pos)
  IN [g EXCEPT !.num_vertices_ = extractFromBytePacket(byte_packet, 1), !.renumber_ = renumber.vec,
               !.xadj_ = xadj.vec, !.adjncy_ = adjncy.vec, !.vwgt_ = vwgt.vec,
               !.adjwgt_ = adjwgt.vec]

\* operator==(const MetisGraph &, const MetisGraph &)
GraphEq(lhs, rhs) ==
  <<lhs.num_vertices_, lhs.xadj_, lhs.adjncy_, lhs.vwgt_, lhs.adjwgt_, lhs.renumber_>>
    = <<rhs.num_vertices_, rhs.xadj_, rhs.adjncy_, rhs.vwgt_, rhs.adjwgt_, rhs.renumber_>>

(***************************************************************************)
(* MetisGraph::MetisGraph(const TensorNetwork & network).  A network is    *)
(* the sequence of its (tensor id, tensor) entries in iteration order; a   *)
(* tensor is the sequence of its legs [tid, ext]: the id of the connected  *)
(* tensor and the extent of the dimension.                                 *)
(***************************************************************************)
\* std::sort(edges.begin(), edges.end(), cmp): insertion by connected tensor id
RECURSIVE InsertEdge(_, _)
InsertEdge(sorted, e) ==
  IF sorted = <<>> THEN <<e>>
  ELSE IF e.tid < Head(sorted).tid THEN <<e>> \o sorted
  ELSE <<Head(sorted)>> \o InsertEdge(Tail(sorted), e)

RECURSIVE SortEdges(_)
SortEdges(edges) ==
  IF edges = <<>> THEN <<>> ELSE InsertEdge(SortEdges(Tail(edges)), Head(edges))

\* Lines 54-60: renumber_ (vertex id --> tensor id), the output tensor left out
RECURSIVE InputTensorIds(_)
InputTensorIds(network) ==
  IF network = <<>> THEN <<>>
  ELSE IF Head(network).id # 0
  THEN <<Head(network).id>> \o InputTensorIds(Tail(network))
  ELSE InputTensorIds(Tail(network))

\* tensor_id_map[id]: the position of id in renumber_ (0 for an id it does not hold)
TensorIdMap(renumber, id) ==
  IF \E k \in 1..Len(renumber) : renumber[k] = id
  THEN (CHOOSE k \in 1..Len(renumber) : renumber[k] = id) - 1
  ELSE 0

\* the open volume with the legs to the output tensor left out
OpenVolumeIgnored(edges) == 1

\* Lines 77-86: the product of the extents of the legs to the output tensor
RECURSIVE OpenVolume(_)
OpenVolume(edges) ==
  IF edges = <<>> THEN 1
  ELSE (IF Head(edges).tid = 0 THEN Head(edges).ext ELSE 1) * OpenVolume(Tail(edges))

\* Lines 88-108: runs of legs to the same vertex become one edge.
\* r = [adj_vertices, edge_weights, current_vertex, edge_weight]
RECURSIVE GroupEdges(_, _, _)
GroupEdges(edges, renumber, r) ==
  LET record == [r EXCEPT !.adj_vertices = Append(@, r.current_vertex),
                          !.edge_weights = Append(@, Log2Floor(r.edge_weight) + 1)]
  IN IF edges = <<>>
     THEN IF r.current_vertex >= 0 THEN record ELSE r
     ELSE IF Head(edges).tid = 0
     THEN GroupEdges(Tail(edges), renumber, r)
     ELSE LET v == TensorIdMap(renumber, Head(edges).tid)
          IN IF v # r.current_vertex
             THEN GroupEdges(Tail(edges), renumber,
                    [(IF r.current_vertex >= 0 THEN record ELSE r)
                       EXCEPT !.current_vertex = v, !.edge_weight = Head(edges).ext])
             ELSE GroupEdges(Tail(edges), renumber,
                    [r EXCEPT !.edge_weight = @ * Head(edges).ext])

\* Lines 64-112
RECURSIVE AppendTensors(_, _, _)
AppendTensors(g, network, renumber) ==
  IF network = <<>> THEN g
  ELSE IF Head(network).id = 0 THEN AppendTensors(g, Tail(network), renumber)
  ELSE LET edges == SortEdges(Head(network).legs)
           r == GroupEdges(edges, renumber,
                           [adj_vertices |-> <<>>, edge_weights |-> <<>>,
                            current_vertex |-> -1, edge_weight |-> 1])
           vertex_weight == Log2Floor(OpenVolume(edges)) + 1
       IN AppendTensors(appendVertex(g, r.adj_vertices, r.edge_weights, vertex_weight),
                        Tail(network), renumber)

GraphOfNetwork(network) ==
  LET renumber == InputTensorIds(network)
  IN AppendTensors([NewGraph EXCEPT !.renumber_ = renumber], network, renumber)

(***************************************************************************)
(* The tensor networks the graphs are built from: tensors 1..n, the pair   *)
(* {i,j} joined by legs[<<i,j>>] legs, tensor i with open[i] legs to the   *)
(* output tensor 0, iterated in ascending or descending order of id.       *)
(***************************************************************************)
LegExtent(k) == k + 1

RECURSIVE LegsTo(_, _)
LegsTo(tid, k) == IF k = 0 THEN <<>> ELSE LegsTo(tid, k - 1) \o <<[tid |-> tid, ext |-> LegExtent(k)]>>

\* the legs of tensor t to the tensors u, u-1, ..., 1
RECURSIVE LegsDown(_, _, _)
LegsDown(t, u, legs) ==
  IF u = 0 THEN <<>>
  ELSE (IF u = t THEN <<>> ELSE LegsTo(u, legs[<<Min(t, u), Max(t, u)>>]))
       \o LegsDown(t, u - 1, legs)

TensorOf(t, n, legs, open) ==
  [id |-> t, legs |-> LegsDown(t, n, legs) \o LegsTo(0, open[t])]

\* the output tensor: one leg per open leg of the input tensors
RECURSIVE OutputLegs(_, _)
OutputLegs(t, open) ==
  IF t = 0 THEN <<>> ELSE OutputLegs(t - 1, open) \o [k \in 1..open[t] |-> [tid |-> t, ext |-> LegExtent(k)]]

NetworkOf(n, legs, open, ascending) ==
  LET out == [id |-> 0, legs |-> OutputLegs(n, open)]
  IN IF ascending
     THEN <<out>> \o [k \in 1..n |-> TensorOf(k, n, legs, open)]
     ELSE [k \in 1..n |-> TensorOf(n + 1 - k, n, legs, open)] \o <<out>>

PairsOf(n) == {p \in (1..n) \X (1..n) : p[1] < p[2]}

\* no open leg at all, or one open leg on tensor 1
OpenLegs(n) == {[t \in 1..n |-> 0], [t \in 1..n |-> IF t = 1 THEN 1 ELSE 0]}

Networks ==
  UNION { { NetworkOf(n, legs, open, asc) :
              legs \in [PairsOf(n) -> 0..MaxLegs], open \in OpenLegs(n), asc \in BOOLEAN }
          : n \in 1..MaxV }

(***************************************************************************)
(* Actions on the MetisGraph object.                                       *)
(***************************************************************************)
\* the caller builds a graph by appending its vertices one after another
\* sorted lists of distinct vertex ids below MaxV, without the vertex self
RECURSIVE SeqOfSet(_)
SeqOfSet(S) ==
  IF S = {} THEN <<>>
  ELSE LET x == CHOOSE y \in S : \A z \in S : y <= z IN <<x>> \o SeqOfSet(S \ {x})

AdjLists(self) == {SeqOfSet(S) : S \in SUBSET ((0..(MaxV - 1)) \ {self})}

Bounded(g) ==
  /\ \A k \in 1..Len(g.vwgt_) : g.vwgt_[k] <= MaxWgt
  /\ \A k \in 1..Len(g.adjwgt_) : g.adjwgt_[k] <= MaxWgt

\* a graph every call of the interface may assume: lists sorted and without
\* repetition or self-loop, every edge recorded at both ends with one weight
NbrsOf(g, v) == SubSeq(g.adjncy_, g.xadj_[v + 1] + 1, g.xadj_[v + 2])

WgtsOf(g, v) == SubSeq(g.adjwgt_, g.xadj_[v + 1] + 1, g.xadj_[v + 2])

EdgeWgt(g, v, w) ==
  LET nb == NbrsOf(g, v)
  IN IF \E k \in 1..Len(nb) : nb[k] = w
     THEN WgtsOf(g, v)[CHOOSE k \in 1..Len(nb) : nb[k] = w]
     ELSE 0

SizesOk(g) ==
  /\ Len(g.xadj_) = g.num_vertices_ + 1
  /\ Len(g.vwgt_) = g.num_vertices_
  /\ Len(g.adjncy_) = Len(g.adjwgt_)
  /\ Len(g.adjncy_) = g.xadj_[g.num_vertices_ + 1]

WellFormed(g) ==
  /\ SizesOk(g)
  /\ g.xadj_[1] = 0
  /\ \A v \in 1..g.num_vertices_ : g.xadj_[v] <= g.xadj_[v + 1]
  /\ \A k \in 1..Len(g.adjncy_) : g.adjncy_[k] \in 0..(g.num_vertices_ - 1) /\ g.adjwgt_[k] >= 1
  /\ \A k \in 1..Len(g.vwgt_) : g.vwgt_[k] >= 1
  /\ \A v \in 0..(g.num_vertices_ - 1) :
       LET nb == NbrsOf(g, v)
       IN /\ \A k \in 1..Len(nb) : nb[k] # v
          /\ \A k \in 1..(Len(nb) - 1) : nb[k] < nb[k + 1]
          /\ \A k \in 1..Len(nb) : EdgeWgt(g, nb[k], v) = WgtsOf(g, v)[k]

Outcome(r) == IF r.ub THEN "ub" ELSE IF ~r.asserts THEN "abort" ELSE "ok"

Call(op, a, b, ok) == [op |-> op, a |-> a, b |-> b, ok |-> ok, wf |-> WellFormed(graph)]

\* the constructor runs on the object the default initialisation has just set up
Construct(network) ==
  /\ status = "ok"
  /\ last.op = "new"
  /\ graph' = GraphOfNetwork(network)
  /\ status' = "ok"
  /\ last' = Call("construct", 0, 0, TRUE)
  /\ UNCHANGED <<packet, copy, notGraphVars>>

AppendVertex(adj_vertices, edge_weight, vertex_weight) ==
  /\ status = "ok"
  /\ last.op \in {"new", "append", "clear"}
  /\ graph.num_vertices_ < MaxV
  /\ graph' = appendVertex(graph, adj_vertices,
                           [k \in 1..Len(adj_vertices) |-> edge_weight], vertex_weight)
  /\ status' = "ok"
  /\ last' = Call("append", 0, 0, TRUE)
  /\ UNCHANGED <<packet, copy, notGraphVars>>

MergeVertices(vertex1, vertex2) ==
  /\ status = "ok"
  /\ LET r == mergeVertices(graph, vertex1, vertex2, 0)
     IN /\ r.ub \/ Bounded(r.g)
        /\ graph' = IF r.ub THEN graph ELSE r.g
        /\ status' = Outcome(r)
        /\ last' = Call("merge", IF r.ok THEN Min(vertex1, vertex2) ELSE 0,
                         IF r.ok THEN Max(vertex1, vertex2) ELSE 0, r.ok)
  /\ UNCHANGED <<packet, copy, notGraphVars>>

\* the objective METIS reports: the weight of the adjacency entries that cross
CutOf(g, parts) ==
  SumSeq([k \in 1..Len(g.adjncy_) |->
            IF \E v \in 0..(g.num_vertices_ - 1) :
                 /\ k > g.xadj_[v + 1] /\ k <= g.xadj_[v + 2]
                 /\ g.adjncy_[k] < g.num_vertices_
                 /\ parts[v + 1] # parts[g.adjncy_[k] + 1]
            THEN g.adjwgt_[k] ELSE 0]) \div 2

\* METIS_PartGraphKway succeeds and writes the assignment parts
PartitionGraph(num_parts, parts) ==
  /\ status = "ok"
  /\ graph.num_vertices_ > 0
  /\ Len(parts) = graph.num_vertices_
  /\ \A k \in 1..Len(parts) : parts[k] < Min(num_parts, graph.num_vertices_)
  /\ LET r == partitionGraph(graph, num_parts, parts, CutOf(graph, parts), TRUE, 0)
     IN /\ graph' = IF r.ub THEN graph ELSE r.g
        /\ status' = Outcome(r)
        /\ last' = Call("partition", num_parts, 0, r.ok)
  /\ UNCHANGED <<packet, copy, notGraphVars>>

\* METIS_PartGraphKway reports an error
PartitionFails(num_parts) ==
  /\ status = "ok"
  /\ graph.num_vertices_ > 0
  /\ LET r == partitionGraph(graph, num_parts, <<>>, 0, FALSE, 0)
     IN /\ graph' = r.g
        /\ status' = Outcome(r)
        /\ last' = Call("partition", num_parts, 0, r.ok)
  /\ UNCHANGED <<packet, copy, notGraphVars>>

ExtractSubgraph(partition) ==
  /\ status = "ok"
  /\ LET r == SubGraph(graph, partition, 0)
     IN /\ r.ub \/ Bounded(r.g)
        /\ graph' = IF r.ub THEN graph ELSE r.g
        /\ status' = Outcome(r)
        /\ last' = Call("subgraph", partition, 0, r.ok)
  /\ UNCHANGED <<packet, copy, notGraphVars>>

\* unpack() of a packet that pack() filled from the graph of some network
PacketNetworks == {NetworkOf(2, [p \in PairsOf(2) |-> k], [t \in 1..2 |-> 0], TRUE) : k \in 0..MaxLegs}

Unpack(network) ==
  /\ status = "ok"
  /\ graph' = unpack(graph, pack(GraphOfNetwork(network)))
  /\ status' = "ok"
  /\ last' = Call("unpack", 0, 0, TRUE)
  /\ UNCHANGED <<packet, copy, notGraphVars>>

Clear ==
  /\ status = "ok"
  /\ graph' = clear(graph)
  /\ status' = "ok"
  /\ last' = Call("clear", 0, 0, TRUE)
  /\ UNCHANGED <<packet, copy, notGraphVars>>

\* the subsystems a specification does not exercise rest in these values
GraphIdle ==
  /\ graph = NewGraph
  /\ status = "ok"
  /\ last = [op |-> "new", a |-> 0, b |-> 0, ok |-> TRUE, wf |-> TRUE]
  /\ packet = <<>>
  /\ copy = NewGraph

ReconIdle == recon = "idle"

MpiIdle == mpi = "idle"

GroupIdle == group = "idle"

ConnIdle == conn = "idle"

OperIdle == oper = "idle"

ServerIdle == server = "idle"

DagIdle == dag = "idle"

NetIdle == net = "idle"

CompIdle == comp = "idle"

MoreIdle == ServerIdle /\ DagIdle /\ NetIdle /\ CompIdle

OthersIdle == ReconIdle /\ MpiIdle /\ GroupIdle /\ ConnIdle /\ OperIdle /\ MoreIdle

GraphInit == GraphIdle /\ OthersIdle

GraphNext ==
  \/ \E network \in Networks : Construct(network)
  \/ \E adj \in AdjLists(graph.num_vertices_), ew \in 1..MaxEW, vw \in 1..MaxVW :
       AppendVertex(adj, ew, vw)
  \/ \E v1 \in 0..MaxV, v2 \in 0..MaxV : MergeVertices(v1, v2)
  \/ \E np \in 1..MaxParts, parts \in [1..graph.num_vertices_ -> 0..(MaxParts - 1)] :
       PartitionGraph(np, parts)
  \/ \E np \in 1..MaxParts : PartitionFails(np)
  \/ \E partition \in 0..MaxParts : ExtractSubgraph(partition)
  \/ \E network \in PacketNetworks : Unpack(network)
  \/ Clear

SpecGraph == GraphInit /\ [][GraphNext]_vars

(***************************************************************************)
(* The merged graph, stated on vertices and edges: what merging vertex1    *)
(* and vertex2 (vertex1 < vertex2) of a well-formed graph g is to produce. *)
(***************************************************************************)
\* the vertex of g that becomes vertex k of the merged graph (k # vertex1)
OldId(k, v2) == IF k >= v2 THEN k + 1 ELSE k

\* the id that vertex w of g carries in the merged graph
NewId(w, v1, v2) == IF w = v2 THEN v1 ELSE IF w > v2 THEN w - 1 ELSE w

\* the vertices of g that make up vertex k of the merged graph
PartsOf(k, v1, v2) == IF k = v1 THEN {v1, v2} ELSE {OldId(k, v2)}

NbrSet(g, v) == {NbrsOf(g, v)[i] : i \in 1..Len(NbrsOf(g, v))}

RefNbrs(g, v1, v2, k) ==
  SeqOfSet({NewId(w, v1, v2) : w \in UNION {NbrSet(g, u) : u \in PartsOf(k, v1, v2)}} \ {k})

\* weights add in log-space: w1 + w2 - 1 where two edges collapse into one
RefEdgeWgt(g, v1, v2, k, j) ==
  LET ws == {<<a, b>> \in PartsOf(k, v1, v2) \X PartsOf(j, v1, v2) : EdgeWgt(g, a, b) > 0}
      one == CHOOSE e \in ws : TRUE
      two == CHOOSE e \in ws : e # one
  IN IF Cardinality(ws) = 1 THEN EdgeWgt(g, one[1], one[2])
     ELSE EdgeWgt(g, one[1], one[2]) + EdgeWgt(g, two[1], two[2]) - 1

RECURSIVE Flatten(_)
Flatten(ss) == IF ss = <<>> THEN <<>> ELSE Head(ss) \o Flatten(Tail(ss))

RefMerge(g, v1, v2) ==
  LET n == g.num_vertices_ - 1
      lists == [k \in 1..n |-> RefNbrs(g, v1, v2, k - 1)]
      wgts == [k \in 1..n |->
                 [i \in 1..Len(lists[k]) |-> RefEdgeWgt(g, v1, v2, k - 1, lists[k][i])]]
  IN [ num_vertices_ |-> n,
       xadj_ |-> [k \in 1..(n + 1) |-> Len(Flatten(SubSeq(lists, 1, k - 1)))],
       adjncy_ |-> Flatten(lists),
       adjwgt_ |-> Flatten(wgts),
       vwgt_ |-> [k \in 1..n |->
                    IF k - 1 = v1 THEN g.vwgt_[v1 + 1] + g.vwgt_[v2 + 1] - 1
                    ELSE g.vwgt_[OldId(k - 1, v2) + 1]] ]

\* a step that is a successful merge of a well-formed graph, made without any
\* access outside a vector and with every assertion passing
MergedWellFormed == last'.op = "merge" /\ last'.ok /\ last'.wf /\ status' = "ok"

\* C1: a successful mergeVertices on a well-formed graph produces exactly the
\* merged graph: vertex max(v1,v2) is gone, the vertices above it are renumbered
\* down in every adjacency list, there is no self-loop, and the merged vertex
\* and any other vertex are joined by one edge recorded once at both ends.
MergeIsRefMerge ==
  [][MergedWellFormed =>
       LET ref == RefMerge(graph, last'.a, last'.b)
       IN /\ graph'.num_vertices_ = ref.num_vertices_
          /\ graph'.xadj_ = ref.xadj_
          /\ graph'.adjncy_ = ref.adjncy_]_vars

\* C2: after any sequence of edits the array sizes agree: xadj_ has one entry
\* more than there are vertices, vwgt_ one entry per vertex, adjncy_ and adjwgt_
\* both xadj_[num_vertices_] entries.  (An edit with undefined behaviour leaves
\* no size to rely on.)
SizeInv == status # "ub" /\ SizesOk(graph)

\* C3: a successful mergeVertices keeps the weights in log-space: the merged
\* vertex weighs vwgt[v1] + vwgt[v2] - 1, an edge from the merged vertex weighs
\* what the one old edge weighed or w1 + w2 - 1 of the two, all else is unchanged.
MergeKeepsWeights ==
  [][MergedWellFormed =>
       LET ref == RefMerge(graph, last'.a, last'.b)
       IN /\ graph'.vwgt_ = ref.vwgt_
          /\ (graph'.xadj_ = ref.xadj_ /\ graph'.adjncy_ = ref.adjncy_)
               => graph'.adjwgt_ = ref.adjwgt_]_vars

(***************************************************************************)
(* pack() into an empty packet, then MetisGraph(BytePacket &) on it.       *)
(***************************************************************************)
\* the graphs that are packed: the empty graph, the graphs of the networks, and
\* what merging vertices 0 and 1 of these leaves (renumber_ empty)
PackInputs ==
  {NewGraph} \cup {GraphOfNetwork(network) : network \in Networks}
             \cup {mergeVertices(GraphOfNetwork(network), 0, 1, 0).g :
                     network \in {nw \in Networks : ~mergeVertices(GraphOfNetwork(nw), 0, 1, 0).ub}}

PackInit ==
  /\ graph \in PackInputs
  /\ status = "ok"
  /\ last = [op |-> "new", a |-> 0, b |-> 0, ok |-> TRUE, wf |-> TRUE]
  /\ packet = <<>>
  /\ copy = NewGraph
  /\ OthersIdle

Pack ==
  /\ last.op = "new"
  /\ packet' = pack(graph)
  /\ last' = [last EXCEPT !.op = "pack"]
  /\ UNCHANGED <<graph, status, copy, notGraphVars>>

\* MetisGraph::MetisGraph(BytePacket &): MetisGraph() and then unpack()
UnpackCopy ==
  /\ last.op = "pack"
  /\ copy' = unpack(NewGraph, packet)
  /\ last' = [last EXCEPT !.op = "unpacked"]
  /\ UNCHANGED <<graph, status, packet, notGraphVars>>

PackNext == Pack \/ UnpackCopy

SpecPack == PackInit /\ [][PackNext]_vars

\* C4: packing a graph and unpacking the packet into a fresh MetisGraph gives a
\* graph equal to it under operator==, field by field; the packet holds
\* num_vertices, renumber, xadj, adjncy, vwgt, adjwgt in this order, each vector
\* preceded by its length.
PackUnpackEqual ==
  /\ last.op \in {"pack", "unpacked"} =>
       packet = <<graph.num_vertices_>>
                  \o <<Len(graph.renumber_)>> \o graph.renumber_
                  \o <<Len(graph.xadj_)>> \o graph.xadj_
                  \o <<Len(graph.adjncy_)>> \o graph.adjncy_
                  \o <<Len(graph.vwgt_)>> \o graph.vwgt_
                  \o <<Len(graph.adjwgt_)>> \o graph.adjwgt_
  /\ last.op = "unpacked" =>
       /\ GraphEq(copy, graph)
       /\ copy.num_vertices_ = graph.num_vertices_ /\ copy.xadj_ = graph.xadj_
       /\ copy.adjncy_ = graph.adjncy_ /\ copy.vwgt_ = graph.vwgt_
       /\ copy.adjwgt_ = graph.adjwgt_ /\ copy.renumber_ = graph.renumber_

\* C4 witness: a graph of three vertices with edges and a renumbering went
\* through pack and unpack
PackUnpackWitness ==
  /\ last.op = "unpacked"
  /\ graph.num_vertices_ = 3 /\ Len(graph.adjncy_) >= 4 /\ Len(graph.renumber_) = 3
  /\ GraphEq(copy, graph)

(***************************************************************************)
(* TensorNetworkReconstructor (reconstructor.cpp).  The numerical backend  *)
(* is external: the max-abs of a gradient and the overlap it computes are  *)
(* chosen by the actions.  names lists the names of the optimizable        *)
(* tensors of the approximant in the order the constructor loop meets them.*)
(***************************************************************************)
notReconVars == <<graphVars, mpi, group, conn, oper, moreVars>>

\* Lines 104-121: one environment per tensor name not met before in this call
RECURSIVE NewEnvironments(_, _)
NewEnvironments(names, tensor_names) ==
  IF names = <<>> THEN <<>>
  ELSE IF Head(names) \in tensor_names THEN NewEnvironments(Tail(names), tensor_names)
  ELSE <<Head(names)>> \o NewEnvironments(Tail(names), tensor_names \cup {Head(names)})

\* TensorNetworkReconstructor(expansion, approximant, tolerance)
NewReconstructor(names, max_iterations) ==
  [ pc |-> "idle", names |-> names, max_iterations_ |-> max_iterations, tolerance_ |-> 1,
    residual_norm2_ |-> 0, fidelity_ |-> 0, environments_ |-> <<>>, converged |-> FALSE,
    iteration |-> 0, max_grad_maxabs |-> 0, tensors |-> {}, calls |-> 0,
    solution |-> "none", out |-> <<>>, events |-> <<>>, clash |-> FALSE ]

\* "_g" + tensor.getName(), line 112
GradientName(name) == IF name = "A" THEN "_gA" ELSE "_gB"

Event(op, tensor) == [op |-> op, tensor |-> tensor]

\* The numerical server over a run of calls: createTensorSync adds a tensor,
\* destroyTensorSync removes it, evaluateSync writes into it.  st = [tensors,
\* clash]; clash records a tensor created while it exists, or written or
\* destroyed while it does not.
RECURSIVE RunEvents(_, _)
RunEvents(events, st) ==
  IF events = <<>> THEN st
  ELSE LET e == Head(events)
       IN RunEvents(Tail(events),
            [ tensors |-> IF e.op = "create" THEN st.tensors \cup {e.tensor}
                          ELSE IF e.op = "destroy" THEN st.tensors \ {e.tensor}
                          ELSE st.tensors,
              clash |-> st.clash \/ ((e.op = "create") = (e.tensor \in st.tensors)) ])

\* the gradient is left allocated at the end of its turn
GradientPassKeeps(environments) ==
  [i \in 1..(2 * Len(environments)) |->
     Event(IF i % 2 = 1 THEN "create" ELSE "evaluate",
           GradientName(environments[(i + 1) \div 2]))]

\* Lines 146-168: the calls one pass of the loop makes on the gradient tensors,
\* environment after environment
GradientPass(environments) ==
  [i \in 1..(3 * Len(environments)) |->
     Event(IF i % 3 = 1 THEN "create" ELSE IF i % 3 = 2 THEN "evaluate" ELSE "destroy",
           GradientName(environments[(i + 2) \div 3]))]

\* the calls of one stretch of reconstruct() applied to the reconstructor r
WithEvents(r, events) ==
  LET st == RunEvents(events, [tensors |-> r.tensors, clash |-> r.clash])
  IN [r EXCEPT !.tensors = st.tensors, !.clash = st.clash, !.events = events]

resetMaxIterations(max_iterations) ==
  /\ recon.pc = "idle"
  /\ recon' = [recon EXCEPT !.max_iterations_ = max_iterations]
  /\ UNCHANGED notReconVars

\* reconstruct(), lines 61-142: up to the first test of the loop condition.
\* Without environments the body of if(!converged) is skipped and the call returns.
ReconstructBegin ==
  /\ recon.pc = "idle"
  /\ recon.calls < MaxCalls
  /\ LET environments == recon.environments_ \o NewEnvironments(recon.names, {})
     IN recon' = [WithEvents(recon, IF environments = <<>> THEN <<>>
                                    ELSE <<Event("create", "_scalar_norm"),
                                           Event("evaluate", "_scalar_norm")>>) EXCEPT
                    !.residual_norm2_ = 0, !.fidelity_ = 0,
                    !.environments_ = environments,
                    !.converged = (environments = <<>>),
                    !.iteration = 0, !.max_grad_maxabs = 0,
                    !.pc = IF environments = <<>> THEN "idle" ELSE "loop",
                    !.calls = IF environments = <<>> THEN @ + 1 ELSE @,
                    !.solution = "none", !.out = <<>>]
  /\ UNCHANGED notReconVars

RECURSIVE MaxOf(_)
MaxOf(s) == IF s = <<>> THEN 0 ELSE Max(Head(s), MaxOf(Tail(s)))

\* Lines 143-175: one pass of while(!converged); grads[k] is the max-abs of the
\* gradient of environment k, residual the norm computed at its end
Iterate(grads, residual) ==
  /\ recon.pc = "loop"
  /\ ~recon.converged
  /\ recon.iteration < MaxIter
  /\ recon' = [WithEvents(recon, GradientPass(recon.environments_)
                                   \o <<Event("evaluate", "_scalar_norm")>>) EXCEPT
                            !.iteration = @ + 1,
                            !.max_grad_maxabs = MaxOf(grads),
                            !.residual_norm2_ = residual,
                            !.converged = (MaxOf(grads) <= recon.tolerance_)]
  /\ UNCHANGED notReconVars

\* Lines 176-200: past the loop
ReconstructEnd(overlap_abs) ==
  /\ recon.pc = "loop"
  /\ recon.converged
  /\ recon' = [WithEvents(recon, <<Event("evaluate", "_scalar_norm"),
                                    Event("destroy", "_scalar_norm")>>) EXCEPT
                            !.fidelity_ = overlap_abs * overlap_abs,
                            !.pc = "idle", !.calls = @ + 1]
  /\ UNCHANGED notReconVars

\* getSolution(residual_norm2, fidelity): solution is what it returns, out what
\* it writes through its two pointers (nothing when it returns null)
getSolution ==
  /\ recon.pc = "idle"
  /\ recon' = [recon EXCEPT
                 !.solution = IF recon.fidelity_ = 0 THEN "null" ELSE "approximant",
                 !.out = IF recon.fidelity_ = 0 THEN <<>>
                         ELSE <<recon.residual_norm2_, recon.fidelity_>>]
  /\ UNCHANGED notReconVars

ApproximantNames == {<<>>, <<"A">>, <<"A", "B">>, <<"A", "B", "A">>}

RecInit ==
  /\ GraphIdle /\ MpiIdle /\ GroupIdle /\ ConnIdle /\ OperIdle /\ MoreIdle
  /\ recon \in {NewReconstructor(names, m) : names \in ApproximantNames, m \in 0..MaxCap}

RecNext ==
  \/ \E m \in 0..MaxCap : resetMaxIterations(m)
  \/ ReconstructBegin
  \/ \E grads \in [1..Len(recon.environments_) -> 0..MaxGrad], residual \in 0..1 :
       Iterate(grads, residual)
  \/ \E overlap_abs \in 0..1 : ReconstructEnd(overlap_abs)
  \/ getSolution

SpecRec == RecInit /\ [][RecNext]_vars

\* C5: reconstruct() always terminates: the loop stops once the largest
\* gradient max-abs is within the tolerance or once the number of iterations
\* exceeds max_iterations_, whichever comes first.  So no pass of the loop
\* begins with the iteration count already above the cap.
LoopWithinCap ==
  [][(recon.pc = "loop" /\ recon'.pc = "loop" /\ recon'.iteration = recon.iteration + 1)
       => recon.iteration <= recon.max_iterations_]_vars

(***************************************************************************)
(* MPICommProxy (mpi_proxy.cpp).  A proxy holds mpi_comm_ptr_, a shared    *)
(* pointer to an MPI_Comm, and the flag destroy_on_free_.  blocks[b] is    *)
(* the control block b: the communicator it points to and its use count;   *)
(* proxies[p] is the proxy in slot p: blk = 0 for an empty one, blk = -1   *)
(* for a slot that holds no proxy.                                         *)
(* freed logs every MPI_Comm_free: the communicator, the use count and the *)
(* flag of the proxy that made it.                                         *)
(***************************************************************************)
notMpiVars == <<graphVars, recon, group, conn, oper, moreVars>>

UserComms == {"C1", "C2"}

Comms == {"MPI_COMM_WORLD", "MPI_COMM_SELF"} \cup UserComms

NoProxy == [blk |-> -1, destroy_on_free_ |-> FALSE]

NewMpi ==
  [ comm |-> [c \in Comms |-> IF c \in UserComms THEN "unused" ELSE "live"],
    blocks |-> <<>>,
    proxies |-> [p \in 1..MaxProxies |-> NoProxy],
    freed |-> {} ]

isEmpty(proxy) == proxy.blk = 0

\* the destructor with the use count not consulted
FreesCommAnyCount(proxy, blocks) ==
  /\ proxy.destroy_on_free_
  /\ ~isEmpty(proxy)
  /\ blocks[proxy.blk].comm # "MPI_COMM_WORLD"
  /\ blocks[proxy.blk].comm # "MPI_COMM_SELF"

\* Lines 22-30 of ~MPICommProxy: whether the destructor calls MPI_Comm_free
FreesComm(proxy, blocks) ==
  /\ proxy.destroy_on_free_
  /\ ~isEmpty(proxy)
  /\ blocks[proxy.blk].use_count = 1
  /\ blocks[proxy.blk].comm # "MPI_COMM_WORLD"
  /\ blocks[proxy.blk].comm # "MPI_COMM_SELF"

\* MPICommProxy(comm, destroy_on_free) on MPI_COMM_WORLD, MPI_COMM_SELF, or on
\* a communicator that MPI has just created
ConstructProxy(p, c, destroy_on_free) ==
  /\ mpi.proxies[p] = NoProxy
  /\ Len(mpi.blocks) < MaxBlocks
  /\ mpi.comm[c] = (IF c \in UserComms THEN "unused" ELSE "live")
  /\ mpi' = [mpi EXCEPT !.comm[c] = "live",
                        !.blocks = Append(@, [comm |-> c, use_count |-> 1]),
                        !.proxies[p] = [blk |-> Len(mpi.blocks) + 1,
                                        destroy_on_free_ |-> destroy_on_free]]
  /\ UNCHANGED notMpiVars

\* MPICommProxy(): no communicator
ConstructEmptyProxy(p) ==
  /\ mpi.proxies[p] = NoProxy
  /\ mpi' = [mpi EXCEPT !.proxies[p] = [blk |-> 0, destroy_on_free_ |-> FALSE]]
  /\ UNCHANGED notMpiVars

\* MPICommProxy(const MPICommProxy &): the shared pointer and the flag are copied
CopyProxy(p, q) ==
  /\ mpi.proxies[p] # NoProxy
  /\ mpi.proxies[q] = NoProxy
  /\ mpi' = [mpi EXCEPT !.proxies[q] = mpi.proxies[p],
                        !.blocks = [b \in 1..Len(mpi.blocks) |->
                                      IF b = mpi.proxies[p].blk
                                      THEN [mpi.blocks[b] EXCEPT !.use_count = @ + 1]
                                      ELSE mpi.blocks[b]]]
  /\ UNCHANGED notMpiVars

\* ~MPICommProxy(): the body (lines 19-38), then the member mpi_comm_ptr_ is released
DestroyProxy(p) ==
  /\ mpi.proxies[p] # NoProxy
  /\ LET proxy == mpi.proxies[p]
         frees == FreesComm(proxy, mpi.blocks)
         c == IF isEmpty(proxy) THEN "none" ELSE mpi.blocks[proxy.blk].comm
     IN mpi' = [mpi EXCEPT
                  !.comm = IF frees THEN [@ EXCEPT ![c] = "freed"] ELSE @,
                  !.freed = IF frees
                            THEN @ \cup {[comm |-> c, use_count |-> mpi.blocks[proxy.blk].use_count,
                                          destroy_on_free_ |-> proxy.destroy_on_free_,
                                          again |-> mpi.comm[c] = "freed"]}
                            ELSE @,
                  !.blocks = [b \in 1..Len(mpi.blocks) |->
                                IF b = proxy.blk
                                THEN [mpi.blocks[b] EXCEPT !.use_count = @ - 1]
                                ELSE mpi.blocks[b]],
                  !.proxies[p] = NoProxy]
  /\ UNCHANGED notMpiVars

MpiInit ==
  /\ GraphIdle /\ ReconIdle /\ GroupIdle /\ ConnIdle /\ OperIdle /\ MoreIdle
  /\ mpi = NewMpi

MpiNext ==
  \/ \E p \in 1..MaxProxies, c \in Comms, d \in BOOLEAN : ConstructProxy(p, c, d)
  \/ \E p \in 1..MaxProxies : ConstructEmptyProxy(p)
  \/ \E p \in 1..MaxProxies, q \in 1..MaxProxies : CopyProxy(p, q)
  \/ \E p \in 1..MaxProxies : DestroyProxy(p)

SpecMPI == MpiInit /\ [][MpiNext]_vars

LiveProxies == {p \in 1..MaxProxies : mpi.proxies[p] # NoProxy}

\* C6: over any sequence of copies and destructions a communicator is freed
\* at most once, only by the destruction of the last proxy sharing it and only
\* when that proxy has destroy_on_free_ set; MPI_COMM_WORLD and MPI_COMM_SELF
\* are never freed; no live proxy refers to a freed communicator.
CommFreedOnceByLast ==
  /\ \A f \in mpi.freed :
       /\ ~f.again
       /\ f.use_count = 1
       /\ f.destroy_on_free_
       /\ f.comm \notin {"MPI_COMM_WORLD", "MPI_COMM_SELF"}
  /\ mpi.comm["MPI_COMM_WORLD"] = "live" /\ mpi.comm["MPI_COMM_SELF"] = "live"
  /\ \A p \in LiveProxies :
       ~isEmpty(mpi.proxies[p]) => mpi.comm[mpi.blocks[mpi.proxies[p].blk].comm] # "freed"

\* C6 witness: a communicator shared by copies has been freed by the last of
\* them while another proxy is still alive
CommFreedWitness ==
  /\ \E f \in mpi.freed : f.comm = "C1"
  /\ \E b \in 1..Len(mpi.blocks) : mpi.blocks[b].comm = "C1" /\ mpi.blocks[b].use_count = 0
  /\ LiveProxies # {}

(***************************************************************************)
(* ProcessGroup::split (mpi_proxy.cpp).  A group is its list of global     *)
(* ranks, its memory limit per process and whether its communicator is     *)
(* empty; member i (its rank in the communicator, from 0) passes           *)
(* colors[i + 1].  MPI_Comm_split is collective: the step is taken by all  *)
(* members together and result[i + 1] is what member i gets.               *)
(***************************************************************************)
notGroupVars == <<graphVars, recon, mpi, conn, oper, moreVars>>

NullGroup == [null |-> TRUE, ranks |-> <<>>, mem_limit |-> 0, destroy_on_free_ |-> FALSE]

\* MPI_Comm_split + MPI_Group_translate_ranks: the ranks in the parent
\* communicator of the members of the new communicator of one colour, ordered
\* by key (the rank in the parent communicator)
RECURSIVE CommSplit(_, _, _)
CommSplit(colors, color, i) ==
  IF i > Len(colors) THEN <<>>
  ELSE (IF colors[i] = color THEN <<i - 1>> ELSE <<>>) \o CommSplit(colors, color, i + 1)

\* line 81 with the ranks in the parent communicator taken for global ranks
SubgroupRanksUntranslated(ranks, orig_ranks) == orig_ranks

\* Lines 79-81: subgroup_ranks[i] = ranks[orig_ranks[i]]
SubgroupRanks(ranks, orig_ranks) == [i \in 1..Len(orig_ranks) |-> ranks[orig_ranks[i] + 1]]

\* ProcessGroup::getSize()
getSize(g) == Len(g.ranks)

\* ProcessGroup::getProcessRanks()
getProcessRanks(g) == g.ranks

\* ProcessGroup::getMemoryLimitPerProcess()
getMemoryLimitPerProcess(g) == g.mem_limit

\* split(my_subgroup) as run by member me.  Result: [sub, asserts]
split(g, colors, me) ==
  LET my_subgroup == colors[me + 1]
  IN IF getSize(g) = 1
     THEN [sub |-> IF my_subgroup >= 0
                   THEN [null |-> FALSE, ranks |-> g.ranks, mem_limit |-> g.mem_limit,
                         destroy_on_free_ |-> g.destroy_on_free_]
                   ELSE NullGroup,
           asserts |-> TRUE]
     ELSE IF ~g.comm_empty
     THEN [sub |-> IF my_subgroup >= 0
                   THEN [null |-> FALSE,
                         ranks |-> SubgroupRanks(getProcessRanks(g),
                                                 CommSplit(colors, my_subgroup, 1)),
                         mem_limit |-> getMemoryLimitPerProcess(g),
                         destroy_on_free_ |-> TRUE]
                   ELSE NullGroup,
           asserts |-> TRUE]
     ELSE [sub |-> NullGroup, asserts |-> FALSE]

Split(colors) ==
  /\ group.pc = "new"
  /\ Len(colors) = Len(group.ranks)
  /\ group' = [group EXCEPT
                 !.pc = IF \A i \in 1..Len(colors) : split(group, colors, i - 1).asserts
                        THEN "split" ELSE "abort",
                 !.colors = colors,
                 !.result = [i \in 1..Len(colors) |-> split(group, colors, i - 1).sub]]
  /\ UNCHANGED notGroupVars

\* the groups that are split: sorted lists of distinct global ranks
RankLists == {SeqOfSet(S) : S \in {T \in SUBSET (0..MaxRank) : T # {} /\ Cardinality(T) <= MaxGroup}}

GroupInit ==
  /\ GraphIdle /\ ReconIdle /\ MpiIdle /\ ConnIdle /\ OperIdle /\ MoreIdle
  /\ group \in {[pc |-> "new", ranks |-> r, mem_limit |-> m, comm_empty |-> FALSE,
                 destroy_on_free_ |-> d, colors |-> <<>>, result |-> <<>>] :
                  r \in RankLists, m \in 1..MaxMem, d \in BOOLEAN}

GroupNext ==
  \E colors \in UNION {[1..n -> -1..MaxColor] : n \in 1..MaxGroup} : Split(colors)

SpecSplit == GroupInit /\ [][GroupNext]_vars

\* the parent members that passed colour c, as global ranks
SameColor(c) == {group.ranks[i] : i \in {j \in 1..Len(group.ranks) : group.colors[j] = c}}

\* C7: split(c) returns null exactly to the members that passed c < 0 and to
\* each other member a subgroup whose ranks are the global ranks of the parent
\* members of the same colour, in the parent's order, with the parent's memory
\* limit; subgroups of different colours are disjoint; a group of size 1 gets
\* a copy of itself when c >= 0 and null otherwise.
SplitBySameColor ==
  group.pc = "split" =>
    \A i \in 1..Len(group.ranks) :
      LET sub == group.result[i]
          c == group.colors[i]
      IN /\ sub.null <=> c < 0
         /\ ~sub.null =>
              /\ sub.ranks = SeqOfSet(SameColor(c))
              /\ sub.mem_limit = group.mem_limit
              /\ Len(group.ranks) = 1 => sub.ranks = group.ranks
              /\ \A j \in 1..Len(group.ranks) :
                   (~group.result[j].null /\ group.colors[j] # c) =>
                     \A a \in 1..Len(sub.ranks), b \in 1..Len(group.result[j].ranks) :
                       sub.ranks[a] # group.result[j].ranks[b]

\* C7 witness: a group of three with ranks that are not 0,1,2 was split into a
\* subgroup of two, a subgroup of one, or members left out
SplitWitness ==
  /\ group.pc = "split"
  /\ group.ranks = <<1, 2, 3>>
  /\ group.colors = <<1, -1, 1>>
  /\ group.result[1].ranks = <<1, 3>> /\ group.result[2].null

(***************************************************************************)
(* TensorConn (tensor_connected.cpp): a tensor inside a network, with its  *)
(* id (0 is the output tensor), its legs [tid, dimid, dir], its conjugation *)
(* and optimizability flags.  Bookkeeping for the checks: last is the last *)
(* call, run counts the conjugate() calls made in a row (up to two), orig  *)
(* holds the flag and the legs from before the first of them, and arg the  *)
(* argument when the last call was conjugate(bool).                        *)
(***************************************************************************)
notConnVars == <<graphVars, recon, mpi, group, oper, moreVars>>

\* TensorLeg::reverseDirection()
reverseDirection(leg) ==
  [leg EXCEPT !.dir = IF @ = "INWARD" THEN "OUTWARD"
                      ELSE IF @ = "OUTWARD" THEN "INWARD" ELSE @]

\* TensorConn(tensor, id, legs, conjugated)
NewConn(id, legs, conjugated) ==
  [ id_ |-> id, legs_ |-> legs, conjugated_ |-> conjugated, optimizable_ |-> FALSE,
    status |-> "ok", last |-> "new", run |-> 0, arg |-> FALSE,
    orig |-> [conjugated_ |-> conjugated, legs_ |-> legs] ]

\* conjugate() that toggles the flag of the output tensor too
conjugateAnyId(c) ==
  [c EXCEPT !.conjugated_ = ~@,
            !.legs_ = [k \in 1..Len(c.legs_) |-> reverseDirection(c.legs_[k])]]

\* conjugate() that sets the flag instead of toggling it
conjugateSetsFlag(c) ==
  [c EXCEPT !.conjugated_ = IF c.id_ # 0 THEN TRUE ELSE @,
            !.legs_ = [k \in 1..Len(c.legs_) |-> reverseDirection(c.legs_[k])]]

\* TensorConn::conjugate()
conjugate(c) ==
  [c EXCEPT !.conjugated_ = IF c.id_ # 0 THEN ~@ ELSE @,
            !.legs_ = [k \in 1..Len(c.legs_) |-> reverseDirection(c.legs_[k])]]

\* TensorConn::conjugate(bool conjug)
conjugateTo(c, conjug) == IF c.conjugated_ # conjug THEN conjugate(c) ELSE c

Conjugate ==
  /\ conn.status = "ok"
  /\ conn' = [conjugate(conn) EXCEPT
                !.last = "conjugate", !.arg = FALSE,
                !.run = IF conn.run = 2 THEN 1 ELSE conn.run + 1,
                !.orig = IF conn.run \in {0, 2}
                         THEN [conjugated_ |-> conn.conjugated_, legs_ |-> conn.legs_]
                         ELSE @]
  /\ UNCHANGED notConnVars

ConjugateTo(conjug) ==
  /\ conn.status = "ok"
  /\ conn' = [conjugateTo(conn, conjug) EXCEPT
                !.last = "conjugate_to", !.run = 0, !.arg = conjug,
                !.orig = [conjugated_ |-> conn.conjugated_, legs_ |-> conn.legs_]]
  /\ UNCHANGED notConnVars

resetTensorId(tensor_id) ==
  /\ conn.status = "ok"
  /\ conn' = [conn EXCEPT !.id_ = tensor_id, !.last = "reset_id", !.run = 0, !.arg = FALSE]
  /\ UNCHANGED notConnVars

\* the assertion of line 242 fails for the output tensor made optimizable
resetOptimizability(optimizable) ==
  /\ conn.status = "ok"
  /\ conn' = IF optimizable = FALSE \/ conn.id_ # 0
             THEN [conn EXCEPT !.optimizable_ = optimizable, !.last = "reset_opt", !.run = 0, !.arg = FALSE]
             ELSE [conn EXCEPT !.status = "abort", !.last = "reset_opt", !.run = 0, !.arg = FALSE]
  /\ UNCHANGED notConnVars

LegDirection == {"UNDIRECT", "INWARD", "OUTWARD"}

ConnLegs == {[tid |-> 1, dimid |-> 0, dir |-> d] : d \in LegDirection}
              \cup {[tid |-> 2, dimid |-> 1, dir |-> d] : d \in LegDirection}

ConnInit ==
  /\ GraphIdle /\ ReconIdle /\ MpiIdle /\ GroupIdle /\ OperIdle /\ MoreIdle
  /\ conn \in {NewConn(id, legs, cj) :
                 id \in 0..1, legs \in UNION {[1..n -> ConnLegs] : n \in 0..MaxConnLegs},
                 cj \in BOOLEAN}

ConnNext ==
  \/ Conjugate
  \/ \E conjug \in BOOLEAN : ConjugateTo(conjug)
  \/ \E tensor_id \in 0..MaxId : resetTensorId(tensor_id)
  \/ \E optimizable \in BOOLEAN : resetOptimizability(optimizable)

SpecConn == ConnInit /\ [][ConnNext]_vars

\* C8: conjugate() toggles the conjugation flag of an input vertex (id # 0),
\* leaves the flag of the output vertex (id 0) as it is, and in both cases
\* turns INWARD legs into OUTWARD legs and back, leaving undirected legs, the
\* targets of the legs and their order unchanged.
ConjugateTogglesAndReverses ==
  [][conn'.last = "conjugate" =>
       /\ conn.id_ # 0 => conn'.conjugated_ = ~conn.conjugated_
       /\ conn.id_ = 0 => conn'.conjugated_ = conn.conjugated_
       /\ conn'.id_ = conn.id_
       /\ Len(conn'.legs_) = Len(conn.legs_)
       /\ \A k \in 1..Len(conn.legs_) :
            /\ conn'.legs_[k].tid = conn.legs_[k].tid
            /\ conn'.legs_[k].dimid = conn.legs_[k].dimid
            /\ conn.legs_[k].dir = "INWARD" => conn'.legs_[k].dir = "OUTWARD"
            /\ conn.legs_[k].dir = "OUTWARD" => conn'.legs_[k].dir = "INWARD"
            /\ conn.legs_[k].dir = "UNDIRECT" => conn'.legs_[k].dir = "UNDIRECT"]_vars

\* C8 witness: conjugate() has run on the output vertex with a directed and an
\* undirected leg
ConjugateWitness ==
  /\ conn.last = "conjugate" /\ conn.run = 1
  /\ conn.id_ = 0 /\ conn.conjugated_
  /\ Len(conn.legs_) = 2
  /\ conn.orig.legs_[1].dir = "INWARD" /\ conn.legs_[1].dir = "OUTWARD"
  /\ conn.legs_[2].dir = "UNDIRECT"

\* C9: conjugate() applied twice to any vertex restores its conjugation flag
\* and the direction of every leg.
ConjugateTwiceRestores ==
  conn.run = 2 => (conn.conjugated_ = conn.orig.conjugated_ /\ conn.legs_ = conn.orig.legs_)

\* C9 witness: two conjugate() calls in a row on an input vertex with a
\* directed and an undirected leg
ConjugateTwiceWitness ==
  /\ conn.run = 2 /\ conn.id_ # 0
  /\ \E k \in 1..Len(conn.legs_) : conn.legs_[k].dir = "OUTWARD"
  /\ \E k \in 1..Len(conn.legs_) : conn.legs_[k].dir = "UNDIRECT"

(***************************************************************************)
(* Primitive tensor operations (tensor_op_*.cpp).  Each constructor hands  *)
(* the base class its opcode, number of operands, number of scalars, the   *)
(* mutability bits of the operands and the symbolic positions of the       *)
(* operands.  oper is one operation: what the constructor set, the tensor  *)
(* operands and the index pattern set so far and whether an executor has   *)
(* accepted it.                                                            *)
(***************************************************************************)
notOperVars == <<graphVars, recon, mpi, group, conn, moreVars>>

\* TensorOperation(opcode, num_operands, num_scalars, mutability, symbolic_positions)
TensorOperation(opcode, num_operands, num_scalars, mutability, symb_pos) ==
  [ opcode_ |-> opcode, num_operands_ |-> num_operands, num_scalars_ |-> num_scalars,
    mutation_ |-> mutability, symb_pos_ |-> symb_pos,
    operands_ |-> <<>>, pattern_ |-> "", accepted |-> FALSE ]

\* TensorOperation::operandIsMutable(operand): bit `operand` of the mutability bits
operandIsMutable(op, operand) == (op.mutation_ \div (2 ^ operand)) % 2 = 1

\* the operands the executor may write
MutableOperands(op) == {i \in 0..(op.num_operands_ - 1) : operandIsMutable(op, i)}

TensorOpCreate == TensorOperation("CREATE", 1, 0, 1, <<0>>)

TensorOpTransform == TensorOperation("TRANSFORM", 1, 1, 1, <<0>>)

TensorOpContract == TensorOperation("CONTRACT", 3, 2, 1 + 0*2 + 0*4, <<0, 1, 2>>)

\* a DECOMPOSE_SVD2 that marks only operand 0 mutable
TensorOpDecomposeSVD2OneOutput == TensorOperation("DECOMPOSE_SVD2", 3, 0, 1, <<1, 2, 0>>)

TensorOpDecomposeSVD2 == TensorOperation("DECOMPOSE_SVD2", 3, 0, 1 + 1*2 + 0*4, <<1, 2, 0>>)

\* isSet() of the four classes: CREATE and TRANSFORM need their operands,
\* CONTRACT and DECOMPOSE_SVD2 an index pattern as well
isSet(op) ==
  /\ Len(op.operands_) = op.num_operands_
  /\ op.opcode_ \in {"CONTRACT", "DECOMPOSE_SVD2"} => op.pattern_ # ""

OperTensors == {"T0", "T1", "T2"}

\* TensorOperation::setTensorOperand(tensor)
setTensorOperand(tensor) ==
  /\ ~oper.accepted
  /\ Len(oper.operands_) < oper.num_operands_
  /\ oper' = [oper EXCEPT !.operands_ = Append(@, tensor)]
  /\ UNCHANGED notOperVars

\* TensorOperation::setIndexPattern(pattern)
setIndexPattern ==
  /\ ~oper.accepted
  /\ Len(oper.operands_) = oper.num_operands_
  /\ oper.opcode_ \in {"CONTRACT", "DECOMPOSE_SVD2"}
  /\ oper.pattern_ = ""
  /\ oper' = [oper EXCEPT !.pattern_ = "set"]
  /\ UNCHANGED notOperVars

\* accept(node_executor, exec_handle) of an operation that is fully set
accept ==
  /\ ~oper.accepted
  /\ isSet(oper)
  /\ oper' = [oper EXCEPT !.accepted = TRUE]
  /\ UNCHANGED notOperVars

OpsInit ==
  /\ GraphIdle /\ ReconIdle /\ MpiIdle /\ GroupIdle /\ ConnIdle /\ MoreIdle
  /\ oper \in {TensorOpCreate, TensorOpTransform, TensorOpContract, TensorOpDecomposeSVD2}

OpsNext ==
  \/ \E tensor \in OperTensors : setTensorOperand(tensor)
  \/ setIndexPattern
  \/ accept

SpecOps == OpsInit /\ [][OpsNext]_vars

\* C10 as stated: in every primitive operation operand 0 is the only operand
\* the mutability bits mark as written, every other operand is only read.
OnlyOperandZeroWritten == MutableOperands(oper) = {0}

\* C10 amended: operand 0 is written by every primitive operation; it is the
\* only operand written by CREATE, TRANSFORM and CONTRACT, while
\* DECOMPOSE_SVD2 writes operands 0 and 1 and only reads operand 2; the
\* mutability bits encode exactly that.
MutabilityPerOpcode ==
  /\ 0 \in MutableOperands(oper)
  /\ oper.mutation_ < 2 ^ oper.num_operands_
  /\ oper.opcode_ \in {"CREATE", "TRANSFORM", "CONTRACT"} => MutableOperands(oper) = {0}
  /\ oper.opcode_ = "DECOMPOSE_SVD2" => MutableOperands(oper) = {0, 1}

\* C10 witness: a fully set DECOMPOSE_SVD2 accepted by an executor, with two
\* written operands and one read operand
MutabilityWitness ==
  /\ oper.opcode_ = "DECOMPOSE_SVD2" /\ oper.accepted
  /\ oper.operands_ = <<"T0", "T1", "T2">>
  /\ operandIsMutable(oper, 1) /\ ~operandIsMutable(oper, 2)

(***************************************************************************)
(* MetisGraph::getContractionCost (metis_graph.cpp).  The doubles of the   *)
(* function are ratios of powers of two; a double is written [n, d] for    *)
(* n / d.  The call is const: it leaves the graph as it is and writes its  *)
(* result and *intermediate_volume, *diff_volume, kept here in last.       *)
(***************************************************************************)
\* std::pow(2.0, static_cast<double>(w - 1))
Pow2(w) == 2 ^ (w - 1)

\* Lines 336-340: the loop over the edges of vertex1; acc is [left_vol, contr_vol]
RECURSIVE CostLeft(_, _, _, _, _)
CostLeft(g, i, hi, vertex2, acc) ==
  IF i >= hi THEN acc
  ELSE CostLeft(g, i + 1, hi, vertex2,
                [left_vol |-> acc.left_vol * Pow2(g.adjwgt_[i + 1]),
                 contr_vol |-> IF g.adjncy_[i + 1] = vertex2
                               THEN acc.contr_vol * Pow2(g.adjwgt_[i + 1])
                               ELSE acc.contr_vol])

\* Lines 341-344: the loop over the edges of vertex2
RECURSIVE CostRight(_, _, _, _)
CostRight(g, i, hi, right_vol) ==
  IF i >= hi THEN right_vol
  ELSE CostRight(g, i + 1, hi, right_vol * Pow2(g.adjwgt_[i + 1]))

\* Lines 345-349: inter_vol, the two outputs, and flops, which is still 0.0
CostResult(l, right_vol) ==
  [ flops |-> [n |-> 0, d |-> 1],
    intermediate_volume |-> [n |-> l.left_vol * right_vol, d |-> l.contr_vol * l.contr_vol],
    diff_volume |-> [n |-> l.left_vol * right_vol
                            - (l.left_vol + right_vol) * l.contr_vol * l.contr_vol,
                     d |-> l.contr_vol * l.contr_vol] ]

\* Lines 332-344 for vertex1 < vertex2
CostOrdered(g, vertex1, vertex2) ==
  CostResult(CostLeft(g, g.xadj_[vertex1 + 1], g.xadj_[vertex1 + 2], vertex2,
                      [left_vol |-> Pow2(g.vwgt_[vertex1 + 1]), contr_vol |-> 1]),
             CostRight(g, g.xadj_[vertex2 + 1], g.xadj_[vertex2 + 2],
                       Pow2(g.vwgt_[vertex2 + 1])))

\* getContractionCost(vertex1, vertex2, &intermediate_volume, &diff_volume);
\* out holds the two output variables of the caller before the call
getContractionCost(g, vertex1, vertex2, out) ==
  IF vertex1 # vertex2 /\ vertex1 < g.num_vertices_ /\ vertex2 < g.num_vertices_
  THEN CostOrdered(g, Min(vertex1, vertex2), Max(vertex1, vertex2))
  ELSE [flops |-> [n |-> 0, d |-> 1], intermediate_volume |-> out.intermediate_volume,
        diff_volume |-> out.diff_volume]

NoCost == [flops |-> [n |-> 0, d |-> 1], intermediate_volume |-> [n |-> 0, d |-> 1],
           diff_volume |-> [n |-> 0, d |-> 1]]

GetContractionCost(vertex1, vertex2) ==
  /\ status = "ok"
  /\ last.op = "new"
  /\ last' = [op |-> "cost", a |-> vertex1, b |-> vertex2, ok |-> TRUE,
              wf |-> WellFormed(graph),
              res |-> getContractionCost(graph, vertex1, vertex2, last.res)]
  /\ UNCHANGED <<graph, status, packet, copy, notGraphVars>>

\* the same call with the two arguments exchanged, after the first
GetContractionCostAgain ==
  /\ status = "ok"
  /\ last.op = "cost"
  /\ last' = [last EXCEPT !.op = "cost2",
                          !.res = getContractionCost(graph, last.b, last.a, NoCost)]
  /\ UNCHANGED <<graph, status, packet, copy, notGraphVars>>

CostInit ==
  /\ graph \in {GraphOfNetwork(network) : network \in Networks}
  /\ status = "ok"
  /\ last = [op |-> "new", a |-> 0, b |-> 0, ok |-> TRUE, wf |-> TRUE, res |-> NoCost]
  /\ packet = <<>>
  /\ copy = NewGraph
  /\ OthersIdle

CostNext ==
  \/ \E v1 \in 0..MaxV, v2 \in 0..MaxV : GetContractionCost(v1, v2)
  \/ GetContractionCostAgain

SpecCost == CostInit /\ [][CostNext]_vars

\* the volume of vertex v: its open volume times the volume of all its edges
RECURSIVE ProdPow2(_)
ProdPow2(ws) == IF ws = <<>> THEN 1 ELSE Pow2(Head(ws)) * ProdPow2(Tail(ws))

VolOf(g, v) == Pow2(g.vwgt_[v + 1]) * ProdPow2(WgtsOf(g, v))

\* the volume of the edge shared by v and w (1 when there is none)
SharedVol(g, v, w) == IF EdgeWgt(g, v, w) = 0 THEN 1 ELSE Pow2(EdgeWgt(g, v, w))

RatEq(x, y) == x.n * y.d = y.n * x.d

CostCase ==
  /\ last.op \in {"cost", "cost2"} /\ last.wf
  /\ last.a # last.b /\ last.a < graph.num_vertices_ /\ last.b < graph.num_vertices_

\* C11: for distinct in-range vertices getContractionCost returns the flop
\* estimate vol(v1)*vol(v2)/C and reports the intermediate volume
\* vol(v1)*vol(v2)/C^2 and the differential volume intermediate - (vol(v1) +
\* vol(v2)); the result is the same with the two arguments exchanged.
CostIsEstimate ==
  CostCase =>
    LET l == VolOf(graph, last.a)
        r == VolOf(graph, last.b)
        c == SharedVol(graph, last.a, last.b)
    IN /\ RatEq(last.res.flops, [n |-> l * r, d |-> c])
       /\ RatEq(last.res.intermediate_volume, [n |-> l * r, d |-> c * c])
       /\ RatEq(last.res.diff_volume, [n |-> l * r - (l + r) * c * c, d |-> c * c])
       /\ last.op = "cost2" =>
            last.res = getContractionCost(graph, last.a, last.b, NoCost)

(***************************************************************************)
(* MetisGraph(const TensorNetwork &) with the network kept beside the      *)
(* graph (in last.network), so that the graph can be compared with it.     *)
(***************************************************************************)
ConstructFrom ==
  /\ status = "ok"
  /\ last.op = "new"
  /\ graph' = GraphOfNetwork(last.network)
  /\ last' = [last EXCEPT !.op = "construct"]
  /\ UNCHANGED <<status, packet, copy, notGraphVars>>

\* getOriginalVertexId(vertex_id), lines 574-578
getOriginalVertexId(g, vertex_id) ==
  IF g.renumber_ # <<>> THEN g.renumber_[vertex_id + 1] ELSE vertex_id

GetOriginalVertexId(vertex_id) ==
  /\ status = "ok"
  /\ last.op \in {"construct", "original"}
  /\ vertex_id < graph.num_vertices_
  /\ last' = [last EXCEPT !.op = "original", !.a = vertex_id,
                          !.b = getOriginalVertexId(graph, vertex_id)]
  /\ UNCHANGED <<graph, status, packet, copy, notGraphVars>>

NetInit ==
  /\ graph = NewGraph
  /\ status = "ok"
  /\ last \in {[op |-> "new", a |-> 0, b |-> 0, ok |-> TRUE, wf |-> TRUE, network |-> nw] :
                 nw \in Networks}
  /\ packet = <<>>
  /\ copy = NewGraph
  /\ OthersIdle

NetNext ==
  \/ ConstructFrom
  \/ \E vertex_id \in 0..(MaxV - 1) : GetOriginalVertexId(vertex_id)

SpecNet == NetInit /\ [][NetNext]_vars

\* the input tensors of a network, and the tensor of a given id
InputIds(network) == {network[k].id : k \in {j \in 1..Len(network) : network[j].id # 0}}

TensorWithId(network, id) == network[CHOOSE k \in 1..Len(network) : network[k].id = id]

\* the product of the extents of the legs of a tensor that go to tensor tid
RECURSIVE ExtentsTo(_, _)
ExtentsTo(legs, tid) ==
  IF legs = <<>> THEN 1
  ELSE (IF Head(legs).tid = tid THEN Head(legs).ext ELSE 1) * ExtentsTo(Tail(legs), tid)

Joined(legs, tid) == \E k \in 1..Len(legs) : legs[k].tid = tid

Occurrences(list, w) == Cardinality({k \in 1..Len(list) : list[k] = w})

\* C12: the graph built from a network has one vertex per input tensor and
\* none for the output tensor; renumber_ maps each vertex back to its tensor
\* id; the weight of a vertex is floor(log2(product of the extents of the
\* tensor's legs to the output tensor)) + 1; each pair of connected input
\* tensors is one edge, recorded in both lists with the weight
\* floor(log2(product of the extents of the legs joining the pair)) + 1.
NetworkGraphShape ==
  last.op \in {"construct", "original"} =>
    /\ graph.num_vertices_ = Cardinality(InputIds(last.network))
    /\ Len(graph.renumber_) = graph.num_vertices_
    /\ {graph.renumber_[k] : k \in 1..Len(graph.renumber_)} = InputIds(last.network)
    /\ SizesOk(graph)
    /\ \A v \in 0..(graph.num_vertices_ - 1) :
         LET t == TensorWithId(last.network, graph.renumber_[v + 1])
         IN /\ graph.vwgt_[v + 1] = Log2Floor(ExtentsTo(t.legs, 0)) + 1
            /\ \A w \in 0..(graph.num_vertices_ - 1) :
                 IF Joined(t.legs, graph.renumber_[w + 1])
                 THEN /\ Occurrences(NbrsOf(graph, v), w) = 1
                      /\ EdgeWgt(graph, v, w)
                           = Log2Floor(ExtentsTo(t.legs, graph.renumber_[w + 1])) + 1
                      /\ EdgeWgt(graph, w, v) = EdgeWgt(graph, v, w)
                 ELSE Occurrences(NbrsOf(graph, v), w) = 0
    /\ last.op = "original" => last.b = graph.renumber_[last.a + 1]

\* C12 witness: three input tensors met in descending order of id, tensor 1
\* with an open leg, tensors 1 and 2 joined by two legs
NetworkGraphWitness ==
  /\ last.op = "construct"
  /\ graph.renumber_ = <<3, 2, 1>>
  /\ graph.vwgt_ = <<1, 1, 2>>
  /\ EdgeWgt(graph, 2, 1) = 3
  /\ EdgeWgt(graph, 1, 2) = 3

\* the entries xadj_[v] .. xadj_[v+1]-1 of adjncy_ ascend
AscendingList(g, v) ==
  \A i \in (g.xadj_[v + 1] + 1)..(g.xadj_[v + 2] - 1) :
    (i >= 1 /\ i + 1 <= Len(g.adjncy_)) => g.adjncy_[i] <= g.adjncy_[i + 1]

\* C13: after every edit (construction from a network, appendVertex,
\* mergeVertices, subgraph extraction) the adjacency list of every vertex is
\* sorted in ascending order of neighbour vertex id.
AdjacencySorted ==
  (status = "ok" /\ last.op \in {"construct", "append", "merge", "subgraph"}) =>
    \A v \in 0..(graph.num_vertices_ - 1) : AscendingList(graph, v)

(***************************************************************************)
(* evaluate / evaluateSync (exatn_numerics.hpp).  The numerical server is  *)
(* external: what its submit and sync return is chosen by the actions.     *)
(* A call yields [ret, log]: the value returned and the server calls made, *)
(* in order.  with_group tells the overload that takes a process group,    *)
(* accumulator whether the accumulator pointer is non-null.                *)
(***************************************************************************)
notServerVars == <<graphVars, recon, mpi, group, conn, oper, dag, net, comp>>

ServerCall(call, with_group, target) ==
  [call |-> call, process_group |-> with_group, target |-> target]

\* evaluate(network), evaluate(process_group, network)
evaluate(with_group, submit_ok) ==
  [ret |-> submit_ok, log |-> <<ServerCall("submit", with_group, "network")>>]

\* evaluateSync(network), evaluateSync(process_group, network)
evaluateSync(with_group, submit_ok, sync_ok) ==
  IF submit_ok
  THEN [ret |-> sync_ok, log |-> <<ServerCall("submit", with_group, "network"),
                                   ServerCall("sync", with_group, "network")>>]
  ELSE [ret |-> FALSE, log |-> <<ServerCall("submit", with_group, "network")>>]

\* evaluate(expansion, accumulator, parallel_width),
\* evaluate(process_group, expansion, accumulator, parallel_width)
evaluateExpansion(with_group, accumulator, submit_ok) ==
  [ret |-> submit_ok, log |-> <<ServerCall("submit", with_group, "expansion")>>]

\* evaluateSync on an expansion without the test of the accumulator
evaluateSyncExpansionUnchecked(with_group, accumulator, submit_ok, sync_ok) ==
  IF submit_ok
  THEN [ret |-> sync_ok, log |-> <<ServerCall("submit", with_group, "expansion"),
                                   ServerCall("sync", with_group, "accumulator")>>]
  ELSE [ret |-> FALSE, log |-> <<ServerCall("submit", with_group, "expansion")>>]

\* evaluateSync(expansion, accumulator, parallel_width),
\* evaluateSync(process_group, expansion, accumulator, parallel_width)
evaluateSyncExpansion(with_group, accumulator, submit_ok, sync_ok) ==
  IF ~accumulator THEN [ret |-> FALSE, log |-> <<>>]
  ELSE IF submit_ok
  THEN [ret |-> sync_ok, log |-> <<ServerCall("submit", with_group, "expansion"),
                                   ServerCall("sync", with_group, "accumulator")>>]
  ELSE [ret |-> FALSE, log |-> <<ServerCall("submit", with_group, "expansion")>>]

\* the server after a call: the call, what the server answered, the result
Served(fn, with_group, accumulator, submit_ok, sync_ok, r) ==
  [ calls |-> server.calls + 1,
    submits |-> server.submits + Cardinality({k \in 1..Len(r.log) : r.log[k].call = "submit"}),
    syncs |-> server.syncs + Cardinality({k \in 1..Len(r.log) : r.log[k].call = "sync"}),
    fn |-> fn, with_group |-> with_group, accumulator |-> accumulator,
    submit_ok |-> submit_ok, sync_ok |-> sync_ok, ret |-> r.ret, log |-> r.log ]

Evaluate(with_group, submit_ok) ==
  /\ server.calls < MaxEvals
  /\ server' = Served("evaluate", with_group, TRUE, submit_ok, FALSE,
                      evaluate(with_group, submit_ok))
  /\ UNCHANGED notServerVars

EvaluateSync(with_group, submit_ok, sync_ok) ==
  /\ server.calls < MaxEvals
  /\ server' = Served("evaluateSync", with_group, TRUE, submit_ok, sync_ok,
                      evaluateSync(with_group, submit_ok, sync_ok))
  /\ UNCHANGED notServerVars

EvaluateExpansion(with_group, accumulator, submit_ok) ==
  /\ server.calls < MaxEvals
  /\ server' = Served("evaluateExpansion", with_group, accumulator, submit_ok, FALSE,
                      evaluateExpansion(with_group, accumulator, submit_ok))
  /\ UNCHANGED notServerVars

EvaluateSyncExpansion(with_group, accumulator, submit_ok, sync_ok) ==
  /\ server.calls < MaxEvals
  /\ server' = Served("evaluateSyncExpansion", with_group, accumulator, submit_ok, sync_ok,
                      evaluateSyncExpansion(with_group, accumulator, submit_ok, sync_ok))
  /\ UNCHANGED notServerVars

ServerInit ==
  /\ GraphIdle /\ ReconIdle /\ MpiIdle /\ GroupIdle /\ ConnIdle /\ OperIdle
  /\ DagIdle /\ NetIdle /\ CompIdle
  /\ server = [calls |-> 0, submits |-> 0, syncs |-> 0, fn |-> "none", with_group |-> FALSE,
               accumulator |-> TRUE, submit_ok |-> FALSE, sync_ok |-> FALSE, ret |-> FALSE,
               log |-> <<>>]

ServerNext ==
  \/ \E g \in BOOLEAN, s \in BOOLEAN : Evaluate(g, s)
  \/ \E g \in BOOLEAN, s \in BOOLEAN, y \in BOOLEAN : EvaluateSync(g, s, y)
  \/ \E g \in BOOLEAN, a \in BOOLEAN, s \in BOOLEAN : EvaluateExpansion(g, a, s)
  \/ \E g \in BOOLEAN, a \in BOOLEAN, s \in BOOLEAN, y \in BOOLEAN :
       EvaluateSyncExpansion(g, a, s, y)

SpecServer == ServerInit /\ [][ServerNext]_vars

LogCalls(log) == [k \in 1..Len(log) |-> log[k].call]

\* C14: a synchronous evaluate returns true only if the submission and the
\* sync that follows it both succeeded; when the submission fails no sync is
\* issued and false is returned; an expansion with a null accumulator returns
\* false without submitting; the asynchronous variants return the submission
\* flag and never sync.
EvaluateSyncContract ==
  /\ server.fn \in {"evaluateSync", "evaluateSyncExpansion"} =>
       /\ server.ret => (server.submit_ok /\ server.sync_ok
                           /\ LogCalls(server.log) = <<"submit", "sync">>)
       /\ (server.accumulator /\ ~server.submit_ok) =>
            (~server.ret /\ LogCalls(server.log) = <<"submit">>)
       /\ (server.accumulator /\ server.submit_ok) =>
            (server.ret = server.sync_ok /\ LogCalls(server.log) = <<"submit", "sync">>)
       /\ ~server.accumulator => (~server.ret /\ server.log = <<>>)
       /\ \A k \in 1..Len(server.log) : server.log[k].process_group = server.with_group
  /\ server.fn \in {"evaluate", "evaluateExpansion"} =>
       /\ server.ret = server.submit_ok
       /\ LogCalls(server.log) = <<"submit">>

\* C14 witness: evaluateSync on an expansion with a process group whose
\* submission succeeded and whose sync failed, after a call with a null
\* accumulator that reached the server with nothing
EvaluateSyncWitness ==
  /\ server.fn = "evaluateSyncExpansion" /\ server.with_group /\ server.accumulator
  /\ server.submit_ok /\ ~server.sync_ok /\ ~server.ret
  /\ server.calls = 2 /\ server.submits = 1 /\ server.syncs = 1

(***************************************************************************)
(* Operation DAG.  A node is [op, deps, state]; node ids are the positions *)
(* 1..Len(nodes) in order of insertion.  table is the per-tensor           *)
(* writer/reader table: for each tensor the ids of the nodes that touch it *)
(* and the id of its latest writer (0: none).  The operands an operation   *)
(* writes are those its mutability bits mark; CREATE and DESTROY write     *)
(* their only operand.  pipeline_depth_, prefetch_depth_ are the fields of *)
(* the lazy executor, inflight its FIFO of submitted handles, prefetch the *)
(* nodes with an active prefetch.                                          *)
(***************************************************************************)
notDagVars == <<graphVars, recon, mpi, group, conn, oper, server, net, comp>>

DEFAULT_PIPELINE_DEPTH == 16

DEFAULT_PREFETCH_DEPTH == 4

DagTensors == 0..MaxWide

TensorOpDestroy == TensorOperation("DESTROY", 1, 0, 1, <<0>>)

TensorOpAdd == TensorOperation("ADD", 2, 1, 1 + 0*2, <<0, 1>>)

WithOperands(op, operands) == [op EXCEPT !.operands_ = operands]

Writes(op) == {op.operands_[i + 1] : i \in MutableOperands(op)}

Reads(op) == {op.operands_[i + 1] : i \in (0..(op.num_operands_ - 1)) \ MutableOperands(op)}

Touches(op) == Writes(op) \cup Reads(op)

\* the operations a client appends
DagOps ==
  {WithOperands(o, <<t>>) : o \in {TensorOpCreate, TensorOpDestroy, TensorOpTransform},
                            t \in 1..MaxTensors}
  \cup {WithOperands(TensorOpAdd, <<p[1], p[2]>>) :
          p \in {q \in (1..MaxTensors) \X (1..MaxTensors) : q[1] # q[2]}}

\* the constructor of LazyGraphExecutor together with an empty DAG
NewDag ==
  [ nodes |-> <<>>,
    table |-> [t \in DagTensors |-> [touched |-> {}, writer |-> 0]],
    pipeline_depth_ |-> DEFAULT_PIPELINE_DEPTH,
    prefetch_depth_ |-> DEFAULT_PREFETCH_DEPTH,
    inflight |-> <<>>, prefetch |-> {} ]

\* dependencies that leave out the earlier readers of a written tensor
DependenciesOnWriters(table, op) ==
  {table[t].writer : t \in {u \in Touches(op) : table[u].writer # 0}}

\* the scan of the table at insertion: a write depends on every earlier node
\* touching the tensor, a read on its latest writer
Dependencies(table, op) ==
  UNION {table[t].touched : t \in Writes(op)}
  \cup {table[t].writer : t \in {u \in Reads(op) : table[u].writer # 0}}

Touch(table, op, id) ==
  [t \in DagTensors |->
     [ touched |-> IF t \in Touches(op) THEN table[t].touched \cup {id} ELSE table[t].touched,
       writer |-> IF t \in Writes(op) THEN id ELSE table[t].writer ]]

\* append(op) -> id
append(d, op) ==
  [d EXCEPT !.nodes = Append(@, [op |-> op, deps |-> Dependencies(d.table, op),
                                 state |-> "pending"]),
            !.table = Touch(@, op, Len(d.nodes) + 1)]

\* ready_nodes(): pending nodes with no unmet predecessor
ready_nodes(d) ==
  {id \in 1..Len(d.nodes) :
     /\ d.nodes[id].state = "pending"
     /\ \A p \in d.nodes[id].deps : d.nodes[p].state = "complete"}

mark_executing(d, id) == [d EXCEPT !.nodes[id].state = "executing"]

mark_complete(d, id) == [d EXCEPT !.nodes[id].state = "complete"]

AppendOp(op) ==
  /\ Len(dag.nodes) < MaxNodes
  /\ dag' = append(dag, op)
  /\ UNCHANGED notDagVars

MarkExecuting(id) ==
  /\ id \in ready_nodes(dag)
  /\ dag' = mark_executing(dag, id)
  /\ UNCHANGED notDagVars

MarkComplete(id) ==
  /\ id \in 1..Len(dag.nodes)
  /\ dag.nodes[id].state = "executing"
  /\ dag' = mark_complete(dag, id)
  /\ UNCHANGED notDagVars

DagInit ==
  /\ GraphIdle /\ ReconIdle /\ MpiIdle /\ GroupIdle /\ ConnIdle /\ OperIdle
  /\ ServerIdle /\ NetIdle /\ CompIdle
  /\ dag = NewDag

DagNext ==
  \/ \E op \in DagOps : AppendOp(op)
  \/ \E id \in 1..MaxNodes : MarkExecuting(id)
  \/ \E id \in 1..MaxNodes : MarkComplete(id)

SpecDag == DagInit /\ [][DagNext]_vars

\* the earlier nodes node n must wait for, read off the list of operations
EarlierTouching(n, t) == {m \in 1..(n - 1) : t \in Touches(dag.nodes[m].op)}

EarlierWriters(n, t) == {m \in 1..(n - 1) : t \in Writes(dag.nodes[m].op)}

LatestWriter(n, t) == {m \in EarlierWriters(n, t) : \A k \in EarlierWriters(n, t) : k <= m}

RequiredBefore(n) ==
  UNION {EarlierTouching(n, t) : t \in Writes(dag.nodes[n].op)}
  \cup UNION {LatestWriter(n, t) : t \in Reads(dag.nodes[n].op)}

\* C15: a node that creates, destroys or writes T depends on every earlier
\* node touching T, a node that reads T on the latest earlier writer of T;
\* every dependency is an earlier node; and a node that is executing or
\* complete has all of these nodes complete.
DagDependencies ==
  \A n \in 1..Len(dag.nodes) :
    /\ dag.nodes[n].deps = RequiredBefore(n)
    /\ dag.nodes[n].deps \subseteq 1..(n - 1)
    /\ dag.nodes[n].state # "pending" =>
         \A m \in RequiredBefore(n) : dag.nodes[m].state = "complete"

\* C15 witness: CREATE 1 complete, ADD 2 += 1 executing (it read tensor 1
\* after its creation), DESTROY 1 waiting for both, TRANSFORM 2 waiting for
\* the ADD
DagWitness ==
  /\ Len(dag.nodes) = 4
  /\ dag.nodes[1].op.opcode_ = "CREATE" /\ dag.nodes[1].state = "complete"
  /\ dag.nodes[2].op.opcode_ = "ADD" /\ dag.nodes[2].state = "executing"
  /\ dag.nodes[2].deps = {1}
  /\ dag.nodes[3].op.opcode_ = "DESTROY" /\ dag.nodes[3].deps = {1, 2}
  /\ dag.nodes[3].state = "pending"
  /\ dag.nodes[4].op.opcode_ = "TRANSFORM" /\ dag.nodes[4].deps = {2}

(***************************************************************************)
(* Lazy graph executor on a DAG that is wide enough to fill the pipeline:  *)
(* CREATE of tensor 0 followed by MaxWide operations ADD t += 0 on         *)
(* distinct tensors t, each of which only waits for the CREATE.  The issue *)
(* loop submits the first ready node while the pipeline has room, the      *)
(* completion loop polls the handles in FIFO order, the prefetch pass      *)
(* stages the read operands of a ready node among the next prefetch_depth_ *)
(* pending nodes.                                                          *)
(***************************************************************************)
WideOps ==
  [k \in 1..(MaxWide + 1) |->
     IF k = 1 THEN WithOperands(TensorOpCreate, <<0>>)
     ELSE WithOperands(TensorOpAdd, <<k - 1, 0>>)]

RECURSIVE AppendAll(_, _)
AppendAll(ops, k) == IF k = 0 THEN NewDag ELSE append(AppendAll(ops, k - 1), ops[k])

WideDag == AppendAll(WideOps, Len(WideOps))

\* LazyGraphExecutor::setPrefetchDepth
setPrefetchDepth(d, depth) == [d EXCEPT !.prefetch_depth_ = depth]

getPrefetchDepth(d) == d.prefetch_depth_

getPipelineDepth(d) == d.pipeline_depth_

PendingNodes(d) == {id \in 1..Len(d.nodes) : d.nodes[id].state = "pending"}

FirstOf(S) == CHOOSE id \in S : \A other \in S : id <= other

\* an issue loop that ignores the pipeline depth
PipelineHasRoomAlways(d) == TRUE

\* the issue loop blocks when the pipeline is full
PipelineHasRoom(d) == Len(d.inflight) < getPipelineDepth(d)

\* the next prefetch_depth_ pending nodes after the frontier
PrefetchWindow(d) ==
  {id \in PendingNodes(d) :
     Cardinality({other \in PendingNodes(d) : other < id}) < getPrefetchDepth(d)}

PrefetchCandidates(d) ==
  {id \in PrefetchWindow(d) \cap ready_nodes(d) :
     Reads(d.nodes[id].op) # {} /\ id \notin d.prefetch}

IssueNode ==
  /\ PipelineHasRoom(dag)
  /\ ready_nodes(dag) # {}
  /\ dag' = [mark_executing(dag, FirstOf(ready_nodes(dag))) EXCEPT
               !.inflight = Append(@, FirstOf(ready_nodes(dag))),
               !.prefetch = @ \ {FirstOf(ready_nodes(dag))}]
  /\ UNCHANGED notDagVars

CompleteNode ==
  /\ dag.inflight # <<>>
  /\ dag' = [mark_complete(dag, Head(dag.inflight)) EXCEPT !.inflight = Tail(@)]
  /\ UNCHANGED notDagVars

PrefetchNode ==
  /\ Cardinality(dag.prefetch) < getPrefetchDepth(dag)
  /\ PrefetchCandidates(dag) # {}
  /\ dag' = [dag EXCEPT !.prefetch = @ \cup {FirstOf(PrefetchCandidates(dag))}]
  /\ UNCHANGED notDagVars

SetPrefetchDepth(depth) ==
  /\ dag' = setPrefetchDepth(dag, depth)
  /\ UNCHANGED notDagVars

LazyInit ==
  /\ GraphIdle /\ ReconIdle /\ MpiIdle /\ GroupIdle /\ ConnIdle /\ OperIdle
  /\ ServerIdle /\ NetIdle /\ CompIdle
  /\ dag = WideDag

LazyNext ==
  \/ IssueNode
  \/ CompleteNode
  \/ PrefetchNode
  \/ \E depth \in 0..MaxDepth : SetPrefetchDepth(depth)

SpecLazy == LazyInit /\ [][LazyNext]_vars

LazyStep ==
  /\ dag'.pipeline_depth_ = DEFAULT_PIPELINE_DEPTH
  /\ Len(dag'.inflight) <= dag'.pipeline_depth_
  /\ Len(dag.inflight) = dag.pipeline_depth_ => Len(dag'.inflight) <= Len(dag.inflight)
  /\ Cardinality(dag'.prefetch) > Cardinality(dag.prefetch) =>
       Cardinality(dag'.prefetch) <= dag.prefetch_depth_
  /\ (dag'.prefetch_depth_ >= dag.prefetch_depth_
        /\ Cardinality(dag.prefetch) <= dag.prefetch_depth_) =>
       Cardinality(dag'.prefetch) <= dag'.prefetch_depth_

notNetVars == <<graphVars, recon, mpi, group, conn, oper, server, dag, comp>>

Leg(tid, dimid) == [tid |-> tid, dimid |-> dimid, dir |-> "UNDIRECT"]

NetTensor(shape, legs) == [present |-> TRUE, shape |-> shape, legs |-> legs]

NoTensor == [present |-> FALSE, shape |-> <<>>, legs |-> <<>>]

\* the tensors T0, T1, T2, H0, S0, S1, S2 placed at ids 1..7
ClosureTensors ==
  << NetTensor(<<2, 2>>, <<Leg(4, 0), Leg(2, 0)>>),
     NetTensor(<<2, 2, 2>>, <<Leg(1, 1), Leg(4, 1), Leg(3, 0)>>),
     NetTensor(<<2, 2>>, <<Leg(2, 2), Leg(7, 1)>>),
     NetTensor(<<2, 2, 2, 2>>, <<Leg(1, 0), Leg(2, 1), Leg(5, 0), Leg(6, 1)>>),
     NetTensor(<<2, 2>>, <<Leg(4, 2), Leg(6, 0)>>),
     NetTensor(<<2, 2, 2>>, <<Leg(5, 1), Leg(4, 3), Leg(7, 0)>>),
     NetTensor(<<2, 2>>, <<Leg(6, 2), Leg(3, 1)>>) >>

\* the same placements with one extent, one dual leg or one direction altered,
\* or with a leg that names the scalar output tensor
AlteredTensors ==
  { <<1, NetTensor(<<2, 2>>, <<Leg(0, 0), Leg(2, 0)>>)>>,
    <<3, NetTensor(<<2, 3>>, <<Leg(2, 2), Leg(7, 1)>>)>>,
    <<5, NetTensor(<<2, 2>>, <<Leg(4, 3), Leg(6, 0)>>)>>,
    <<7, NetTensor(<<2, 2>>, <<Leg(6, 2), [Leg(3, 1) EXCEPT !.dir = "INWARD"]>>)>> }

ClosurePlacements ==
  {<<id, ClosureTensors[id]>> : id \in 1..Len(ClosureTensors)} \cup AlteredTensors

NetIds == 0..Len(ClosureTensors)

SmallLegs == [tid : 1..MaxPlaced, dimid : 0..1, dir : LegDirection]

\* rank 1 with any extent and leg; rank 2 with a second leg that is undirected
SmallTensors ==
  {NetTensor(<<e>>, <<l>>) : e \in 2..MaxExtent, l \in SmallLegs}
  \cup {NetTensor(<<2, 2>>, <<l[1], l[2]>>) :
          l \in SmallLegs \X {k \in SmallLegs : k.dir = "UNDIRECT"}}

SmallPlacements == (1..MaxPlaced) \X SmallTensors

\* TensorNetwork(name, output tensor Z0, no output legs)
NewNetwork(family) ==
  [ family |-> family,
    tensors_ |-> [id \in NetIds |-> IF id = 0 THEN NetTensor(<<>>, <<>>) ELSE NoTensor],
    finalized_ |-> 0,
    last |-> [op |-> "new", ok |-> TRUE] ]

\* placeTensor(tensor_id, tensor, connections)
placeTensor(n, tensor_id, tensor) ==
  IF tensor_id = 0 \/ n.tensors_[tensor_id].present \/ Len(tensor.legs) # Len(tensor.shape)
  THEN [n EXCEPT !.last = [op |-> "place", ok |-> FALSE]]
  ELSE [n EXCEPT !.tensors_[tensor_id] = tensor, !.finalized_ = 0,
                 !.last = [op |-> "place", ok |-> TRUE]]

\* a connection check that does not compare the extents
checkLegAnyExtent(n, tensor_id, dim) ==
  IF ~n.tensors_[n.tensors_[tensor_id].legs[dim + 1].tid].present THEN FALSE
  ELSE IF n.tensors_[tensor_id].legs[dim + 1].dimid
            >= Len(n.tensors_[n.tensors_[tensor_id].legs[dim + 1].tid].legs) THEN FALSE
  ELSE n.tensors_[n.tensors_[tensor_id].legs[dim + 1].tid]
         .legs[n.tensors_[tensor_id].legs[dim + 1].dimid + 1]
       = reverseDirection([tid |-> tensor_id, dimid |-> dim,
                           dir |-> n.tensors_[tensor_id].legs[dim + 1].dir])

\* the connection check of leg numbered dim (from 0) of tensor tensor_id:
\* the leg it names exists, names this leg back with the reverse direction,
\* and the two dimensions have the same extent
checkLeg(n, tensor_id, dim) ==
  IF ~n.tensors_[n.tensors_[tensor_id].legs[dim + 1].tid].present THEN FALSE
  ELSE IF n.tensors_[tensor_id].legs[dim + 1].dimid
            >= Len(n.tensors_[n.tensors_[tensor_id].legs[dim + 1].tid].legs) THEN FALSE
  ELSE /\ n.tensors_[n.tensors_[tensor_id].legs[dim + 1].tid]
            .legs[n.tensors_[tensor_id].legs[dim + 1].dimid + 1]
          = reverseDirection([tid |-> tensor_id, dimid |-> dim,
                              dir |-> n.tensors_[tensor_id].legs[dim + 1].dir])
       /\ n.tensors_[n.tensors_[tensor_id].legs[dim + 1].tid]
            .shape[n.tensors_[tensor_id].legs[dim + 1].dimid + 1]
          = n.tensors_[tensor_id].shape[dim + 1]

\* checkConnections(tensor_id): the legs of one tensor from leg dim on
RECURSIVE checkConnections(_, _, _)
checkConnections(n, tensor_id, dim) ==
  IF dim >= Len(n.tensors_[tensor_id].legs) THEN TRUE
  ELSE IF ~checkLeg(n, tensor_id, dim) THEN FALSE
  ELSE checkConnections(n, tensor_id, dim + 1)

\* finalize(true)
finalize(n) ==
  IF n.finalized_ = 1 THEN [n EXCEPT !.last = [op |-> "finalize", ok |-> TRUE]]
  ELSE IF \A id \in NetIds : n.tensors_[id].present => checkConnections(n, id, 0)
  THEN [n EXCEPT !.finalized_ = 1, !.last = [op |-> "finalize", ok |-> TRUE]]
  ELSE [n EXCEPT !.last = [op |-> "finalize", ok |-> FALSE]]

\* the placements a run of the given family draws from
Placements(family) == IF family = "closure" THEN ClosurePlacements ELSE SmallPlacements

PlaceTensor(tensor_id, tensor) ==
  /\ <<tensor_id, tensor>> \in Placements(net.family)
  /\ net' = placeTensor(net, tensor_id, tensor)
  /\ UNCHANGED notNetVars

Finalize ==
  /\ net' = finalize(net)
  /\ UNCHANGED notNetVars

FinInit ==
  /\ GraphIdle /\ ReconIdle /\ MpiIdle /\ GroupIdle /\ ConnIdle /\ OperIdle
  /\ ServerIdle /\ DagIdle /\ CompIdle
  /\ net \in {NewNetwork(family) : family \in {"closure", "small"}}

FinNext ==
  \/ \E pl \in ClosurePlacements \cup SmallPlacements : PlaceTensor(pl[1], pl[2])
  \/ Finalize

SpecFin == FinInit /\ [][FinNext]_vars

InputVertices(n) == {id \in NetIds \ {0} : n.tensors_[id].present}

\* leg p of vertex i names (j, q); leg q of vertex j names (i, p); the two
\* extents are equal and the two directions opposite
DualLeg(n, i, p) ==
  \E j \in NetIds : \E q \in 0..(Len(n.tensors_[j].legs) - 1) :
    /\ n.tensors_[j].present
    /\ n.tensors_[i].legs[p + 1].tid = j /\ n.tensors_[i].legs[p + 1].dimid = q
    /\ n.tensors_[j].legs[q + 1].tid = i /\ n.tensors_[j].legs[q + 1].dimid = p
    /\ n.tensors_[j].shape[q + 1] = n.tensors_[i].shape[p + 1]
    /\ \/ n.tensors_[i].legs[p + 1].dir = "UNDIRECT" /\ n.tensors_[j].legs[q + 1].dir = "UNDIRECT"
       \/ n.tensors_[i].legs[p + 1].dir = "INWARD" /\ n.tensors_[j].legs[q + 1].dir = "OUTWARD"
       \/ n.tensors_[i].legs[p + 1].dir = "OUTWARD" /\ n.tensors_[j].legs[q + 1].dir = "INWARD"

AllLegsMatched(n) ==
  \A i \in InputVertices(n) : \A p \in 0..(Len(n.tensors_[i].legs) - 1) : DualLeg(n, i, p)

notCompVars == <<graphVars, recon, mpi, group, conn, oper, server, dag, net>>

LowerHalf(extent) == extent \div 2

\* an upper half that drops the odd element
UpperHalfTruncated(extent) == extent \div 2

UpperHalf(extent) == extent - LowerHalf(extent)

\* depth recursive bisections of one segment, in order of offset
RECURSIVE Bisect(_, _)
Bisect(segment, depth) ==
  IF depth = 0 THEN <<segment>>
  ELSE Bisect([offset |-> segment.offset, extent |-> LowerHalf(segment.extent)], depth - 1)
       \o Bisect([offset |-> segment.offset + LowerHalf(segment.extent),
                  extent |-> UpperHalf(segment.extent)], depth - 1)

\* one block replaced by the blocks that split its dimension dim
SplitBlock(block, dim, depth) ==
  [k \in 1..Len(Bisect(block[dim + 1], depth)) |->
     [block EXCEPT ![dim + 1] = Bisect(block[dim + 1], depth)[k]]]

RECURSIVE SplitBlocks(_, _, _, _)
SplitBlocks(blocks, k, dim, depth) ==
  IF k > Len(blocks) THEN <<>>
  ELSE SplitBlock(blocks[k], dim, depth) \o SplitBlocks(blocks, k + 1, dim, depth)

RECURSIVE ApplyDirectives(_, _, _)
ApplyDirectives(blocks, directives, k) ==
  IF k > Len(directives) THEN blocks
  ELSE ApplyDirectives(SplitBlocks(blocks, 1, directives[k][1], directives[k][2]),
                       directives, k + 1)

\* makeSharedTensorComposite(split directives, name, shape)
makeSharedTensorComposite(directives, shape) ==
  [ shape |-> shape, directives |-> directives, made |-> TRUE,
    blocks |-> ApplyDirectives(<<[d \in 1..Len(shape) |-> [offset |-> 0, extent |-> shape[d]]]>>,
                               directives, 1) ]

\* the arguments of the test and those of small tensors of rank 1 and 2:
\* every dimension split at most once, in either order
CompositeInputs ==
  { [shape |-> <<10, 10, 10, 10>>, directives |-> <<<<2, 1>>, <<3, 2>>>>] }
  \cup { [shape |-> <<e>>, directives |-> ds] :
           e \in 1..MaxSide, ds \in {<<>>} \cup {<<<<0, depth>>>> : depth \in 1..MaxSplit} }
  \cup { [shape |-> <<e[1], e[2]>>, directives |-> ds] :
           e \in (1..MaxSide) \X (1..MaxSide),
           ds \in {<<>>}
                  \cup {<<<<dim, depth>>>> : dim \in 0..1, depth \in 1..MaxSplit}
                  \cup {<<<<0, dd[1]>>, <<1, dd[2]>>>> : dd \in (1..MaxSplit) \X (1..MaxSplit)}
                  \cup {<<<<1, dd[1]>>, <<0, dd[2]>>>> : dd \in (1..MaxSplit) \X (1..MaxSplit)} }

MakeComposite ==
  /\ ~comp.made
  /\ comp' = makeSharedTensorComposite(comp.directives, comp.shape)
  /\ UNCHANGED notCompVars

CompInit ==
  /\ GraphIdle /\ ReconIdle /\ MpiIdle /\ GroupIdle /\ ConnIdle /\ OperIdle
  /\ ServerIdle /\ DagIdle /\ NetIdle
  /\ comp \in {[shape |-> in.shape, directives |-> in.directives, made |-> FALSE,
                blocks |-> <<>>] : in \in CompositeInputs}

CompNext == MakeComposite

SpecComp == CompInit /\ [][CompNext]_vars

RECURSIVE ProductOf(_, _)
ProductOf(f, k) == IF k > Len(f) THEN 1 ELSE f[k] * ProductOf(f, k + 1)

RECURSIVE SumOf(_, _)
SumOf(f, k) == IF k > Len(f) THEN 0 ELSE f[k] + SumOf(f, k + 1)

BlockVolume(block) == ProductOf([d \in 1..Len(block) |-> block[d].extent], 1)

DepthOf(dim) ==
  SumOf([k \in 1..Len(comp.directives) |->
           IF comp.directives[k][1] = dim THEN comp.directives[k][2] ELSE 0], 1)

\* the segments the blocks have along dimension dim
SegmentsAlong(dim) == {comp.blocks[k][dim + 1] : k \in 1..Len(comp.blocks)}

\* the segments sg and tg have no index in common
Apart(sg, tg) ==
  \/ sg.extent = 0 \/ tg.extent = 0
  \/ sg.offset + sg.extent <= tg.offset
  \/ tg.offset + tg.extent <= sg.offset

\* C18: the composite tensor has exactly the product of 2^depth blocks; the
\* blocks lie inside the parent and no two of them share an element; along
\* each dimension the segments are contiguous and non-overlapping, every
\* index of the parent extent lying in exactly one of them; and the block
\* element counts sum to the element count of the parent.
BlocksTileParent ==
  comp.made =>
    /\ Len(comp.blocks)
         = ProductOf([k \in 1..Len(comp.directives) |-> 2 ^ comp.directives[k][2]], 1)
    /\ \A k \in 1..Len(comp.blocks) : \A dim \in 0..(Len(comp.shape) - 1) :
         /\ comp.blocks[k][dim + 1].extent >= 0
         /\ comp.blocks[k][dim + 1].offset >= 0
         /\ comp.blocks[k][dim + 1].offset + comp.blocks[k][dim + 1].extent
              <= comp.shape[dim + 1]
    /\ \A k, l \in 1..Len(comp.blocks) :
         k # l => \E dim \in 0..(Len(comp.shape) - 1) :
                    Apart(comp.blocks[k][dim + 1], comp.blocks[l][dim + 1])
    /\ \A dim \in 0..(Len(comp.shape) - 1) :
         /\ \A x \in 0..(comp.shape[dim + 1] - 1) :
              Cardinality({sg \in SegmentsAlong(dim) :
                             sg.offset <= x /\ x < sg.offset + sg.extent}) = 1
         /\ \A sg, tg \in SegmentsAlong(dim) : sg = tg \/ Apart(sg, tg)
    /\ SumOf([k \in 1..Len(comp.blocks) |-> BlockVolume(comp.blocks[k])], 1)
         = ProductOf(comp.shape, 1)

\* C18 witness: the tensor of the test, shape {10,10,10,10} with directives
\* {(2,1),(3,2)}, has 8 blocks; dimension 3 is cut into extents 2, 3, 2, 3
CompositeWitness ==
  /\ comp.made /\ comp.shape = <<10, 10, 10, 10>>
  /\ Len(comp.blocks) = 8
  /\ {<<sg.offset, sg.extent>> : sg \in SegmentsAlong(3)}
       = {<<0, 2>>, <<2, 3>>, <<5, 2>>, <<7, 3>>}
  /\ {<<sg.offset, sg.extent>> : sg \in SegmentsAlong(2)} = {<<0, 5>>, <<5, 5>>}

(***************************************************************************)
(* MetisGraph::MetisGraph(const MetisGraph & parent,                       *)
(*                        const std::vector<std::size_t> & partitions)     *)
(* and the extraction of subgraphs with the parent kept in copy.           *)
(***************************************************************************)
\* the lambda is_contained: partn occurs in the vector partitions
is_contained(partitions, partn) == \E k \in 1..Len(partitions) : partitions[k] = partn

\* Lines 171-180: the edges of one parent vertex.  e = [adjncy_, adjwgt_, vw, ub]
RECURSIVE ChildEdgesOf(_, _, _, _, _, _)
ChildEdgesOf(parent, partitions, edge, hi, e, junk) ==
  IF edge >= hi THEN e
  ELSE IF is_contained(partitions, Get(parent.partitions_, Get(parent.adjncy_, edge, junk), junk))
  THEN ChildEdgesOf(parent, partitions, edge + 1, hi,
         [e EXCEPT !.adjncy_ = Append(@, Get(parent.adjncy_, edge, junk)),
                   !.adjwgt_ = Append(@, Get(parent.adjwgt_, edge, junk)),
                   !.ub = @ \/ ~InR(parent.adjncy_, edge)
                            \/ ~InR(parent.partitions_, Get(parent.adjncy_, edge, junk))], junk)
  ELSE ChildEdgesOf(parent, partitions, edge + 1, hi,
         [e EXCEPT !.vw = @ + (Get(parent.adjwgt_, edge, junk) - 1),
                   !.ub = @ \/ ~InR(parent.adjncy_, edge)
                            \/ ~InR(parent.partitions_, Get(parent.adjncy_, edge, junk))], junk)

\* the child after the vertex vert has been added with the edges e
ChildWith(c, vert, e) ==
  [ g |-> [c.g EXCEPT !.vwgt_ = Append(@, e.vw),
                      !.adjncy_ = @ \o e.adjncy_,
                      !.adjwgt_ = @ \o e.adjwgt_,
                      !.xadj_ = Append(@, c.g.xadj_[c.g.num_vertices_ + 1] + Len(e.adjncy_)),
                      !.num_vertices_ = @ + 1],
    vertex_id_map |-> Append(c.vertex_id_map, <<vert, c.g.num_vertices_>>),
    ub |-> c.ub \/ e.ub ]

\* Lines 166-184.  c = [g, vertex_id_map, ub]
RECURSIVE ChildVerticesOf(_, _, _, _, _)
ChildVerticesOf(parent, partitions, vert, c, junk) ==
  IF vert >= Len(parent.partitions_) THEN c
  ELSE IF ~is_contained(partitions, parent.partitions_[vert + 1])
  THEN ChildVerticesOf(parent, partitions, vert + 1, c, junk)
  ELSE ChildVerticesOf(parent, partitions, vert + 1,
         ChildWith(c, vert,
           ChildEdgesOf(parent, partitions, Get(parent.xadj_, vert, junk),
                        Get(parent.xadj_, vert + 1, junk),
                        [adjncy_ |-> <<>>, adjwgt_ |-> <<>>,
                         vw |-> Get(parent.vwgt_, vert, junk),
                         ub |-> ~InR(parent.vwgt_, vert) \/ ~InR(parent.xadj_, vert + 1)],
                        junk)), junk)

\* Lines 188-190
RECURSIVE ChildRenumberOf(_, _, _, _, _)
ChildRenumberOf(parent, partitions, vert, r, junk) ==
  IF vert >= Len(parent.renumber_) THEN r
  ELSE IF is_contained(partitions, Get(parent.partitions_, vert, junk))
  THEN ChildRenumberOf(parent, partitions, vert + 1,
                       [renumber_ |-> Append(r.renumber_, parent.renumber_[vert + 1]),
                        ub |-> r.ub \/ ~InR(parent.partitions_, vert)], junk)
  ELSE ChildRenumberOf(parent, partitions, vert + 1,
                       [r EXCEPT !.ub = @ \/ ~InR(parent.partitions_, vert)], junk)

Renumbered(c, r) ==
  [ g |-> [c.g EXCEPT !.adjncy_ = [k \in 1..Len(c.g.adjncy_) |->
                                     MapLookup(c.vertex_id_map, c.g.adjncy_[k])],
                      !.renumber_ = r.renumber_],
    ok |-> TRUE, ub |-> c.ub \/ r.ub, asserts |-> TRUE ]

\* Result: [g, ok, ub, asserts]
SubGraphOf(parent, partitions, junk) ==
  Renumbered(ChildVerticesOf(parent, partitions, 0,
                             [g |-> NewGraph, vertex_id_map |-> <<>>, ub |-> FALSE], junk),
             ChildRenumberOf(parent, partitions, 0, [renumber_ |-> <<>>, ub |-> FALSE], junk))

\* the child replaces the graph; the parent is kept in copy
Extracted(r, op, partitions) ==
  /\ r.ub \/ Bounded(r.g)
  /\ graph' = IF r.ub THEN graph ELSE r.g
  /\ copy' = graph
  /\ status' = Outcome(r)
  /\ last' = [op |-> op, a |-> 0, b |-> 0, ok |-> r.ok, wf |-> WellFormed(graph),
              parts |-> partitions]
  /\ UNCHANGED <<packet, notGraphVars>>

ExtractPartition(partition) ==
  /\ status = "ok"
  /\ Extracted(SubGraph(graph, partition, 0), "child", <<partition>>)

ExtractPartitions(partitions) ==
  /\ status = "ok"
  /\ Extracted(SubGraphOf(graph, partitions, 0), "children", partitions)

SubInit == GraphInit

SubNext ==
  \/ \E network \in Networks : Construct(network)
  \/ \E adj \in AdjLists(graph.num_vertices_), ew \in 1..MaxEW, vw \in 1..MaxVW :
       AppendVertex(adj, ew, vw)
  \/ \E np \in 1..MaxParts, parts \in [1..graph.num_vertices_ -> 0..(MaxParts - 1)] :
       PartitionGraph(np, parts)
  \/ \E partition \in 0..MaxParts : ExtractPartition(partition)
  \/ \E partitions \in UNION {[1..n -> 0..MaxParts] : n \in 1..2} :
       ExtractPartitions(partitions)

SpecSub == SubInit /\ [][SubNext]_vars

\* the parent vertices of the requested partitions, in parent order
Selected == SeqOfSet({p \in 0..(Len(copy.partitions_) - 1) :
                        is_contained(last.parts, copy.partitions_[p + 1])})

ChildOf(p) == (CHOOSE k \in 1..Len(Selected) : Selected[k] = p) - 1

IsSelected(p) == \E k \in 1..Len(Selected) : Selected[k] = p

\* the positions lo..hi of the parent's adjacency whose neighbour is selected
RECURSIVE InnerEntries(_, _)
InnerEntries(lo, hi) ==
  IF lo > hi THEN <<>>
  ELSE (IF IsSelected(copy.adjncy_[lo]) THEN <<lo>> ELSE <<>>) \o InnerEntries(lo + 1, hi)

EntriesOf(p) == InnerEntries(copy.xadj_[p + 1] + 1, copy.xadj_[p + 2])

FoldedWeight(p) ==
  copy.vwgt_[p + 1]
  + SumSeq([k \in 1..(copy.xadj_[p + 2] - copy.xadj_[p + 1]) |->
              IF IsSelected(copy.adjncy_[copy.xadj_[p + 1] + k]) THEN 0
              ELSE copy.adjwgt_[copy.xadj_[p + 1] + k] - 1])

\* the child holds exactly the selected parent vertices in parent order, the
\* inner edges with their weights and renumbered ends, and the outer edges
\* folded into the vertex weights
SubgraphContent ==
  (status = "ok" /\ last.op \in {"child", "children"}) =>
    /\ graph.num_vertices_ = Len(Selected)
    /\ SizesOk(graph) /\ graph.xadj_[1] = 0
    /\ \A v \in 0..(Len(Selected) - 1) :
         /\ NbrsOf(graph, v) = [k \in 1..Len(EntriesOf(Selected[v + 1])) |->
                                  ChildOf(copy.adjncy_[EntriesOf(Selected[v + 1])[k]])]
         /\ WgtsOf(graph, v) = [k \in 1..Len(EntriesOf(Selected[v + 1])) |->
                                  copy.adjwgt_[EntriesOf(Selected[v + 1])[k]]]
         /\ graph.vwgt_[v + 1] = FoldedWeight(Selected[v + 1])

\* C19: the extracted graph holds exactly the parent vertices of the
\* requested partitions in parent order, renumbered from 0, with the inner
\* edges copied and the outer edges folded into the vertex weights;
\* getOriginalVertexId of a child vertex equals getOriginalVertexId of its
\* parent vertex; a single partition index >= num_parts_ aborts.
SubgraphExtracted ==
  /\ SubgraphContent
  /\ (last.op = "child" /\ last.parts[1] >= copy.num_parts_) => status = "abort"
  /\ (status = "ok" /\ last.op \in {"child", "children"}) =>
       \A v \in 0..(Len(Selected) - 1) :
         getOriginalVertexId(graph, v) = getOriginalVertexId(copy, Selected[v + 1])

(***************************************************************************)
(* The derivative environments of the reconstructor over several calls of  *)
(* reconstruct(), checked on the reconstructor model above.                *)
(***************************************************************************)
NamesOf(s) == {s[k] : k \in 1..Len(s)}

\* C20: once reconstruct() has prepared the environments, in any of its
\* calls, the list holds exactly one environment per distinct optimizable
\* tensor name of the approximant, so that a pass of the loop evaluates and
\* applies the gradient of each optimizable tensor at most once.
OneEnvironmentPerName ==
  (recon.pc = "loop" \/ recon.calls > 0) =>
    /\ NamesOf(recon.environments_) = NamesOf(recon.names)
    /\ \A k, l \in 1..Len(recon.environments_) :
         recon.environments_[k] = recon.environments_[l] => k = l

(***************************************************************************)
(* The optimizability flag of a network vertex against its id, checked on  *)
(* the TensorConn model above.                                             *)
(***************************************************************************)

\* C21: in every state reached through construction, resetOptimizability and
\* resetTensorId the output vertex (id 0) is not optimizable.
OutputNotOptimizable ==
  (conn.status = "ok" /\ conn.id_ = 0) => ~conn.optimizable_

(***************************************************************************)
(* Rejected calls of mergeVertices, checked on the graph model above.      *)
(***************************************************************************)

\* C22: a mergeVertices call that is rejected (vertex1 = vertex2 or an id
\* >= num_vertices_) leaves the whole graph unchanged: the vertex and edge
\* arrays, the renumbering and any existing partitioning.
RejectedMergeKeepsGraph ==
  [][(last'.op = "merge" /\ ~last'.ok) => graph' = graph]_vars

(***************************************************************************)
(* ~MPICommProxy() run by several threads at once on copies that share one *)
(* communicator.  The destructor is not atomic: a thread reads use_count() *)
(* (line 24), calls MPI_Comm_free if it read 1 (line 31), and only when    *)
(* the body is over does the member mpi_comm_ptr_ release its reference.   *)
(* Thread t destroys the proxy in slot t; threads[t] is its position.      *)
(***************************************************************************)
MaxThreads == 3

Threads(m) == DOMAIN m.threads

\* n copies of one proxy of communicator c, each about to be destroyed by its
\* own thread
SharedProxies(n, c, destroy_on_free) ==
  [ comm |-> [x \in Comms |-> IF x \in UserComms /\ x # c THEN "unused" ELSE "live"],
    blocks |-> <<[comm |-> c, use_count |-> n]>>,
    proxies |-> [p \in 1..MaxProxies |->
                   IF p <= n THEN [blk |-> 1, destroy_on_free_ |-> destroy_on_free]
                   ELSE NoProxy],
    freed |-> {},
    shared |-> [comm |-> c, destroy_on_free_ |-> destroy_on_free],
    threads |-> [t \in 1..n |-> "start"] ]

\* Lines 22-24: the flag, isEmpty() and use_count() are read, and the thread
\* goes on to free the communicator or skips to the end of the body
ReadUseCount(t) ==
  /\ t \in Threads(mpi)
  /\ mpi.threads[t] = "start"
  /\ mpi' = [mpi EXCEPT !.threads[t] = IF FreesComm(mpi.proxies[t], mpi.blocks)
                                       THEN "free" ELSE "release"]
  /\ UNCHANGED notMpiVars

\* Lines 25-33: MPI_Comm_free of the communicator the proxy points to
FreeComm(t) ==
  /\ t \in Threads(mpi)
  /\ mpi.threads[t] = "free"
  /\ LET proxy == mpi.proxies[t]
         c == mpi.blocks[proxy.blk].comm
     IN mpi' = [mpi EXCEPT
                  !.comm[c] = "freed",
                  !.freed = @ \cup {[comm |-> c, use_count |-> mpi.blocks[proxy.blk].use_count,
                                     destroy_on_free_ |-> proxy.destroy_on_free_,
                                     again |-> mpi.comm[c] = "freed", by |-> t]},
                  !.threads[t] = "release"]
  /\ UNCHANGED notMpiVars

\* End of the destructor: the member mpi_comm_ptr_ gives up its reference
ReleasePointer(t) ==
  /\ t \in Threads(mpi)
  /\ mpi.threads[t] = "release"
  /\ mpi' = [mpi EXCEPT
               !.blocks[mpi.proxies[t].blk].use_count = @ - 1,
               !.proxies[t] = NoProxy,
               !.threads[t] = "done"]
  /\ UNCHANGED notMpiVars

ThreadsInit ==
  /\ GraphIdle /\ ReconIdle /\ GroupIdle /\ ConnIdle /\ OperIdle /\ MoreIdle
  /\ mpi \in {SharedProxies(n, c, d) : n \in 2..MaxThreads, c \in Comms, d \in BOOLEAN}

ThreadsNext ==
  \/ \E t \in 1..MaxThreads : ReadUseCount(t)
  \/ \E t \in 1..MaxThreads : FreeComm(t)
  \/ \E t \in 1..MaxThreads : ReleasePointer(t)

SpecThreads == ThreadsInit /\ [][ThreadsNext]_vars

AllDestroyed == \A t \in Threads(mpi) : mpi.threads[t] = "done"

\* C23: when several threads destroy copies that share one communicator
\* created with destroy_on_free (not WORLD or SELF), under every interleaving
\* the communicator is freed exactly once: never twice, and not left unfreed
\* once the last copy is gone.
ConcurrentFreeOnce ==
  (mpi.shared.destroy_on_free_ /\ mpi.shared.comm \in UserComms) =>
    /\ Cardinality(mpi.freed) <= 1
    /\ \A f \in mpi.freed : ~f.again
    /\ AllDestroyed => Cardinality(mpi.freed) = 1

(***************************************************************************)
(* Memory safety of mergeVertices, checked on the graph model above: the   *)
(* call ends in status "ub" when it reads or writes an array outside its   *)
(* bounds and in "abort" when one of its assertions fails.                 *)
(***************************************************************************)

\* C24: on a well-formed graph mergeVertices reads and writes xadj_, adjncy_,
\* adjwgt_ and vwgt_ only at valid indices and its assertions hold, also when
\* neither vertex has an edge and when the merged vertex ends with no edge.
MergeAccessesValid ==
  (last.op = "merge" /\ last.wf) => status = "ok"

(***************************************************************************)
(* Symmetry of the adjacency structure over graphs that are built from a   *)
(* network and then edited by mergeVertices, partitioned and cut down to   *)
(* the subgraph of a partition (no appendVertex by hand).                  *)
(***************************************************************************)
SymNext ==
  \/ \E network \in Networks : Construct(network)
  \/ \E v1 \in 0..MaxV, v2 \in 0..MaxV : MergeVertices(v1, v2)
  \/ \E np \in 1..MaxParts, parts \in [1..graph.num_vertices_ -> 0..(MaxParts - 1)] :
       PartitionGraph(np, parts)
  \/ \E partition \in 0..MaxParts : ExtractSubgraph(partition)

SpecSym == GraphInit /\ [][SymNext]_vars

\* the positions in adjncy_ that hold the adjacency list of vertex v
EntriesAt(g, v) == {k \in 1..Len(g.adjncy_) : k > g.xadj_[v + 1] /\ k <= g.xadj_[v + 2]}

EntriesInRange(g) == \A k \in 1..Len(g.adjncy_) : g.adjncy_[k] \in 0..(g.num_vertices_ - 1)

Symmetric(g) ==
  \A u \in 0..(g.num_vertices_ - 1) : \A k \in EntriesAt(g, u) :
    \E l \in EntriesAt(g, g.adjncy_[k]) :
      g.adjncy_[l] = u /\ g.adjwgt_[l] = g.adjwgt_[k]

\* C25: in every state reached by construction from a network, mergeVertices
\* and subgraph extraction every adjacency entry is a vertex id below
\* num_vertices_, u is listed by v exactly when v is listed by u, with the same
\* weight, and the assertion num_cross_edges_ % 2 == 0 of partitionGraph holds
\* for every partition assignment.
AdjacencySymmetric ==
  /\ last.op = "partition" => status = "ok"
  /\ status = "ok" =>
       (SizesOk(graph) /\ EntriesInRange(graph) /\ Symmetric(graph))

(***************************************************************************)
(* MetisGraph::partitionGraph(num_parts, num_miniparts, imbalance): the    *)
(* graph is cut into minipartitions, a coarse graph with one vertex per    *)
(* minipartition is built and cut into num_parts parts, and every vertex   *)
(* takes the part of its minipartition.  parts and coarse_parts are the    *)
(* assignments METIS writes in the two calls, errc_ok and coarse_ok its    *)
(* statuses.                                                               *)
(***************************************************************************)
MaxMini == 3

\* Lines 495-505: adj[i][j] sums the weights of the adjacency entries that
\* lead from a vertex of minipartition i to a vertex of minipartition j
CoarseAdjacency(g, num_miniparts) ==
  [i \in 0..(num_miniparts - 1) |-> [j \in 0..(num_miniparts - 1) |->
     SumSeq([k \in 1..Len(g.adjncy_) |->
               IF \E v \in 0..(g.num_vertices_ - 1) :
                    /\ k \in EntriesAt(g, v)
                    /\ g.partitions_[v + 1] = i
                    /\ Get(g.partitions_, g.adjncy_[k], -1) = j
               THEN g.adjwgt_[k] ELSE 0])]]

\* Lines 497-503: whether the loop indexes partitions_ or adj outside their bounds
CoarseAdjacencyUb(g, num_miniparts) ==
  \/ \E k \in 1..Len(g.adjncy_) : ~InR(g.partitions_, g.adjncy_[k])
  \/ \E k \in 1..Len(g.partitions_) : g.partitions_[k] >= num_miniparts

\* Lines 516-528: the coarse graph, one appendVertex per minipartition i with
\* vertex weight part_weights_[i].  c = [g, ub]
RECURSIVE CoarseGraph(_, _, _, _, _, _)
CoarseGraph(g, adj, i, num_miniparts, c, junk) ==
  IF i >= num_miniparts THEN c
  ELSE LET adj_verts == SeqOfSet({j \in 0..(num_miniparts - 1) : j # i /\ adj[i][j] # 0})
           adj_wghts == [k \in 1..Len(adj_verts) |-> adj[i][adj_verts[k]]]
       IN CoarseGraph(g, adj, i + 1, num_miniparts,
            [ g |-> appendVertex(c.g, adj_verts, adj_wghts, Get(g.part_weights_, i, junk)),
              ub |-> c.ub \/ ~InR(g.part_weights_, i) ], junk)

\* Lines 537-543: the number of adjacency entries that cross.  cnt = [num, ub]
RECURSIVE CrossEntries(_, _, _, _)
CrossEntries(g, vert, cnt, junk) ==
  IF vert >= g.num_vertices_ THEN cnt
  ELSE CrossEntries(g, vert + 1,
                    CountCross(g, g.partitions_[vert + 1], g.xadj_[vert + 1],
                               g.xadj_[vert + 2], cnt, junk), junk)

\* Lines 530-546: the parts of the coarse graph are taken over
MergeMiniparts(g, coarse, num_parts, junk) ==
  LET g1 == [g EXCEPT !.edge_cut_ = coarse.edge_cut_,
                      !.part_weights_ = coarse.part_weights_,
                      !.partitions_ = [k \in 1..Len(g.partitions_) |->
                                         Get(coarse.partitions_, g.partitions_[k], junk)]]
      cnt == CrossEntries(g1, 0, [num |-> 0, ub |-> FALSE], junk)
  IN [ g |-> [g1 EXCEPT !.num_cross_edges_ = cnt.num \div 2, !.num_parts_ = num_parts],
       ok |-> TRUE,
       ub |-> cnt.ub \/ \E k \in 1..Len(g.partitions_) : ~InR(coarse.partitions_, g.partitions_[k]),
       asserts |-> cnt.num % 2 = 0 ]

\* the objective METIS reports for the coarse graph
CoarseCut(coarse, coarse_parts) ==
  IF WellFormed(coarse) THEN CutOf(coarse, coarse_parts) ELSE 0

\* Lines 489-551, the whole call.  Result: [g, ok, ub, asserts]
partitionGraphTwoLevel(g0, num_parts, num_miniparts, parts, errc_ok, coarse_parts, coarse_ok, junk) ==
  LET r1 == partitionGraph(g0, num_miniparts, parts, CutOf(g0, parts), errc_ok, junk)
  IN IF r1.ub \/ ~r1.asserts \/ ~(r1.ok /\ num_miniparts > num_parts) THEN r1
     ELSE LET c == CoarseGraph(r1.g, CoarseAdjacency(r1.g, num_miniparts), 0,
                               num_miniparts, [g |-> NewGraph, ub |-> FALSE], junk)
              r2 == partitionGraph(c.g, num_parts, coarse_parts,
                                   CoarseCut(c.g, coarse_parts), coarse_ok, junk)
          IN IF CoarseAdjacencyUb(r1.g, num_miniparts) \/ c.ub \/ r2.ub
             THEN [g |-> r1.g, ok |-> FALSE, ub |-> TRUE, asserts |-> TRUE]
             ELSE IF ~r2.asserts \/ ~r2.ok
             THEN [g |-> r1.g, ok |-> FALSE, ub |-> FALSE, asserts |-> r2.asserts]
             ELSE MergeMiniparts(r1.g, r2.g, num_parts, junk)

\* the call is made once, on the graph a network has just produced
PartitionGraphTwoLevel(num_parts, num_miniparts, parts, errc_ok, coarse_parts, coarse_ok) ==
  /\ status = "ok"
  /\ last.op = "construct"
  /\ graph.num_vertices_ > 0
  /\ num_miniparts >= num_parts
  /\ Len(parts) = graph.num_vertices_
  /\ \A k \in 1..Len(parts) : parts[k] < Min(num_miniparts, graph.num_vertices_)
  /\ Len(coarse_parts) = num_miniparts
  /\ \A k \in 1..Len(coarse_parts) : coarse_parts[k] < num_parts
  /\ LET r == partitionGraphTwoLevel(graph, num_parts, num_miniparts, parts, errc_ok,
                                     coarse_parts, coarse_ok, 0)
     IN /\ graph' = IF r.ub THEN graph ELSE r.g
        /\ status' = Outcome(r)
        /\ last' = Call("partition2", num_parts, num_miniparts, r.ok)
  /\ UNCHANGED <<packet, copy, notGraphVars>>

\* the closed networks of up to MaxV tensors, listed output tensor first
ClosedNetworks ==
  UNION { { NetworkOf(n, legs, [t \in 1..n |-> 0], TRUE) : legs \in [PairsOf(n) -> 0..MaxLegs] }
          : n \in 1..MaxV }

TwoLevelNext ==
  \/ \E network \in ClosedNetworks : Construct(network)
  \/ \E num_parts \in 1..MaxParts, num_miniparts \in 1..MaxMini,
        parts \in [1..graph.num_vertices_ -> 0..(MaxMini - 1)],
        coarse_parts \in UNION {[1..m -> 0..(MaxParts - 1)] : m \in 1..MaxMini},
        errc_ok \in BOOLEAN, coarse_ok \in BOOLEAN :
       PartitionGraphTwoLevel(num_parts, num_miniparts, parts, errc_ok,
                              coarse_parts, coarse_ok)

SpecTwoLevel == GraphInit /\ [][TwoLevelNext]_vars

\* the vertices that the partition vector of g assigns to part p
VerticesIn(g, p) == {v \in 0..(g.num_vertices_ - 1) : g.partitions_[v + 1] = p}

\* the edges of g, each once, whose ends lie in different parts
CrossingEdges(g) ==
  {e \in (0..(g.num_vertices_ - 1)) \X (0..(g.num_vertices_ - 1)) :
     /\ e[1] < e[2]
     /\ \E k \in EntriesAt(g, e[1]) : g.adjncy_[k] = e[2]
     /\ g.partitions_[e[1] + 1] # g.partitions_[e[2] + 1]}

\* C26: for num_vertices_ > 0 and num_miniparts >= num_parts > 0, with
\* num_miniparts above the number of vertices too, the two-level partitionGraph
\* never indexes part_weights_ or the coarse adjacency matrix out of range, and
\* on success every vertex has a part in [0, num_parts), part_weights_[p] is
\* the sum of the vertex weights assigned to p and num_cross_edges_ the number
\* of edges between different parts.
TwoLevelPartitionSafe ==
  last.op = "partition2" =>
    /\ status = "ok"
    /\ last.ok =>
         /\ \A v \in 0..(graph.num_vertices_ - 1) :
              graph.partitions_[v + 1] \in 0..(last.a - 1)
         /\ \A p \in 0..(Len(graph.part_weights_) - 1) :
              graph.part_weights_[p + 1] =
                SumSeq([k \in 1..graph.num_vertices_ |->
                          IF graph.partitions_[k] = p THEN graph.vwgt_[k] ELSE 0])
         /\ \A v \in 0..(graph.num_vertices_ - 1) :
              graph.partitions_[v + 1] < Len(graph.part_weights_)
         /\ graph.num_cross_edges_ = Cardinality(CrossingEdges(graph))

(***************************************************************************)
(* The temporary tensors of reconstruct(): the gradient tensors of the     *)
(* environments and "_scalar_norm", checked on the reconstructor model.    *)
(***************************************************************************)
GradientNames == {GradientName(name) : name \in {"A", "B"}}

\* positions of the calls of kind op made on tensor t in the latest stretch
CallsOn(op, t) ==
  {i \in 1..Len(recon.events) : recon.events[i].op = op /\ recon.events[i].tensor = t}

\* C27: during reconstruct() each gradient tensor is created, evaluated and
\* destroyed within one iteration step and never created while it exists,
\* "_scalar_norm" is created once before the loop and destroyed once after it,
\* and when reconstruct() returns none of these tensors remains allocated,
\* with or without optimizable tensors.
TemporariesScoped ==
  /\ ~recon.clash
  /\ recon.pc = "loop" => recon.tensors = {"_scalar_norm"}
  /\ recon.pc = "idle" => recon.tensors = {}
  /\ \A t \in GradientNames : \A i \in CallsOn("create", t) :
       \E j \in CallsOn("evaluate", t), k \in CallsOn("destroy", t) :
         /\ i < j /\ j < k
         /\ \A l \in CallsOn("create", t) : l <= i \/ l > k

\* C27 witness: a second reconstruct() has returned after two passes of the
\* loop over at least two environments, and nothing is left allocated
TemporariesWitness ==
  /\ recon.pc = "idle" /\ recon.calls = 2 /\ recon.iteration >= 2
  /\ Len(recon.environments_) >= 2
  /\ recon.tensors = {}
  /\ recon.events[Len(recon.events)] = Event("destroy", "_scalar_norm")

(***************************************************************************)
(* getSolution() after reconstruct(), checked on the reconstructor model.  *)
(* reconstruct() reports residual_norm2_ and fidelity_ as they stand when  *)
(* it returns, and returns true on every return.                           *)
(***************************************************************************)

\* C28: once reconstruct() has returned true, getSolution() returns the
\* approximant and writes the residual norm and the fidelity reconstruct()
\* reported; it returns null, writing nothing, only when no reconstruct() has
\* completed.
SolutionAfterReconstruct ==
  /\ (recon.calls > 0 /\ recon.pc = "idle" /\ recon.solution # "none") =>
       /\ recon.solution = "approximant"
       /\ recon.out = <<recon.residual_norm2_, recon.fidelity_>>
  /\ recon.solution = "null" => (recon.calls = 0 /\ recon.out = <<>>)

(***************************************************************************)
(* conjugate(bool) called twice with one argument, checked on the          *)
(* TensorConn model above.                                                 *)
(***************************************************************************)
SameConjugation(c, d) == c.conjugated_ = d.conjugated_ /\ c.legs_ = d.legs_

\* C29: conjugate(bool c) is idempotent for every vertex, the output vertex
\* too: a second call in a row with the same c leaves the flag and the leg
\* directions as the first call left them, and a call with c equal to the
\* current flag changes nothing.
ConjugateToIdempotent ==
  [][/\ (conn.last = "conjugate_to" /\ conn'.last = "conjugate_to" /\ conn'.arg = conn.arg)
          => SameConjugation(conn', conn)
     /\ (conn'.last = "conjugate_to" /\ conn'.arg = conn.conjugated_)
          => SameConjugation(conn', conn)]_vars

(***************************************************************************)
(* Partitions against edits of the graph, checked on the graph model.      *)
(***************************************************************************)
StructuralChange ==
  \/ last.op \in {"append", "unpack", "clear"}
  \/ last.op = "merge" /\ last.ok

\* C30: partition data is never stale: whenever getNumPartitions() > 0 the
\* partition vector has one entry per current vertex, and after appendVertex,
\* a successful mergeVertices, unpack or clear the number of partitions is 0
\* until partitionGraph is called again.
PartitionsNeverStale ==
  status = "ok" =>
    /\ graph.num_parts_ > 0 => Len(graph.partitions_) = graph.num_vertices_
    /\ StructuralChange => graph.num_parts_ = 0

====
